---- MODULE Spec2Model ----
(***************************************************************************)
(* routicle: a supply-chain network as an attributed graph (nxGraph), its  *)
(* simple-path analysis (getpaths / sortedpaths) and its projection into a *)
(* PuLP linear program (PuLPModel).                                        *)
(*                                                                         *)
(* Conventions of the model                                                *)
(*  - a Python dict is a sequence of its entries in insertion order;       *)
(*  - a networkx graph is the insertion-ordered node list, the insertion-  *)
(*    ordered adjacency list of every node and the edge data;              *)
(*  - Python lists are 0-based, the sequences here 1-based;                *)
(*  - a float is modelled by the natural number of its thousandths (the    *)
(*    weights are positive);                                               *)
(*  - a raised exception is a result with status "error".                  *)
(***************************************************************************)
EXTENDS Integers, Sequences, FiniteSets, TLC

VARIABLES
    directed,    \* the caller's G is an nx.DiGraph (TRUE) or an nx.Graph (FALSE)
    initgraph,   \* the initgraph argument of nxGraph.__init__
    dnodesArg,   \* the dnodes argument: node records, in dict order, keyed by name
    dedgesArg,   \* the dedges argument: edge records, in dict order, keyed by (u, v)
    G,           \* the caller's networkx graph object (self.G after __init__)
    phase,       \* "components" | "rejected" | "new" | "built" | "failed" | "ranking"
    dnodes,      \* self.dnodes
    dedges,      \* self.dedges
    result       \* what the last call returned or raised

vars == <<directed, initgraph, dnodesArg, dedgesArg, G, phase, dnodes, dedges, result>>

(***************************************************************************)
(* Bounds and universe                                                     *)
(***************************************************************************)
MaxEdges == 3
MaxWeight == 2
MaxBatch == 3
MaxArgEdges == 2

\* the float 1.0: the natural k stands for the float k / Unit
Unit == 1000

\* None, as the value of a weight or cost (weights and costs are >= 0)
None == -1
\* float("inf"), the default maxcapacity of a node
Infinity == 1000

NameSeq == <<"A", "B", "C", "D">>
Names == {NameSeq[i] : i \in 1..Len(NameSeq)}
NameIndex(n) == CHOOSE i \in 1..Len(NameSeq) : NameSeq[i] = n

Range(s) == {s[i] : i \in 1..Len(s)}

\* the pairs (u, v), u # v, over a list of names, in lexicographic order
RECURSIVE PairsFrom(_, _, _)
PairsFrom(names, i, j) ==
    IF i > Len(names) THEN <<>>
    ELSE IF j > Len(names) THEN PairsFrom(names, i + 1, 1)
    ELSE (IF i = j THEN <<>> ELSE << <<names[i], names[j]>> >>)
         \o PairsFrom(names, i, j + 1)

Reverse(s) == [i \in 1..Len(s) |-> s[Len(s) + 1 - i]]

(***************************************************************************)
(* Components (routicle.components)                                        *)
(***************************************************************************)
\* a node record: a node with its identity (nothing keeps two nodes from having
\* the same cidx), its capacity interval and its demand
NodeRecord(n) ==
    [name |-> n,
     cidx |-> (NameIndex(n) + 1) \div 2,
     mincapacity |-> NameIndex(n) - 1,
     maxcapacity |-> IF NameIndex(n) % 2 = 1 THEN Infinity ELSE NameIndex(n) + 1,
     demand |-> 10 * NameIndex(n)]

\* the keyword arguments of a node with a capacity interval of the caller's choice
NodeWith(n, mincapacity, maxcapacity) ==
    [NodeRecord(n) EXCEPT !.mincapacity = mincapacity, !.maxcapacity = maxcapacity]

\* a validate_capacity that accepts every interval
ValidateCapacityAlways(node) == TRUE

\* GraphNode.validate_capacity: the assertion min_ <= max_
ValidateCapacity(node) == node.mincapacity <= node.maxcapacity

\* TimeEdge.weight
EdgeWeight(e) == e.time

\* an edge record: a TimeEdge between two nodes
EdgeRecord(u, v, t) ==
    [unode |-> u, vnode |-> v, cidx |-> 10 * NameIndex(u) + NameIndex(v), time |-> t]

\* EdgeAttributes with a value for "cost" as well
EdgeAttributesWithCost(e) == [time |-> e.time, weight |-> EdgeWeight(e), cost |-> Unit]

\* TimeEdge.attributes (the colour is presentation only and left out): a dict
\* with the keys "time" and "weight"
EdgeAttributes(e) == [time |-> e.time, weight |-> EdgeWeight(e)]

EdgeKey(e) == <<e.unode, e.vnode>>

\* the three edge classes of routicle.components.edges
EdgeVariants == {"TimeEdge", "CostEdge", "TimeCostEdge"}

\* GraphEdge._color, the default colour of an edge
DefaultColor == "#191A1C"

\* an edge of one of the classes, with the fields its class declares and the
\* private attribute _color
VariantEdge(variant, u, v, time, cost) ==
    LET base == [variant |-> variant, unode |-> u, vnode |-> v,
                 cidx |-> 10 * NameIndex(u) + NameIndex(v)] @@ ("_color" :> DefaultColor)
    IN CASE variant = "TimeEdge" -> base @@ [time |-> time]
         [] variant = "CostEdge" -> base @@ [cost |-> cost]
         [] OTHER -> base @@ [time |-> time, cost |-> cost]

\* GraphEdge.color
Color(e) == e["_color"]

\* the allowed names with "time" among them
AllowedWithTime == {"_color", "time"}

\* allowed = ["_color"] of GraphEdge.__setattr__
Allowed == {"_color"}

\* GraphEdge.__setattr__(name, value): ValueError for a name that is not allowed,
\* object.__setattr__ otherwise; the edge after the statement
SetAttr(e, name, value) ==
    IF name \notin Allowed THEN [status |-> "error", error |-> "ValueError", edge |-> e]
    ELSE [status |-> "ok",
          edge |-> [k \in DOMAIN e \cup {name} |-> IF k = name THEN value ELSE e[k]]]

\* TimeEdge.weight, CostEdge.weight, TimeCostEdge.weight
VariantWeight(e) ==
    CASE e.variant = "TimeEdge" -> e.time
      [] e.variant = "CostEdge" -> e.cost
      [] OTHER -> (e.time * e.cost) \div Unit

\* TimeEdge.attributes, CostEdge.attributes, TimeCostEdge.attributes (without the
\* colour); reading a field the class does not declare raises AttributeError
VariantAttributes(e) ==
    CASE e.variant = "TimeEdge" ->
            [status |-> "ok",
             attributes |-> [time |-> e.time, weight |-> VariantWeight(e)]]
      [] e.variant = "CostEdge" ->
            IF "time" \notin DOMAIN e THEN [status |-> "error", error |-> "AttributeError"]
            ELSE [status |-> "ok",
                  attributes |-> [time |-> e.time, weight |-> VariantWeight(e)]]
      [] OTHER ->
            [status |-> "ok",
             attributes |-> [cost |-> e.cost, time |-> e.time,
                             weight |-> VariantWeight(e)]]

(***************************************************************************)
(* networkx graphs (the library the core is written against)               *)
(***************************************************************************)
NoData == [p \in {} |-> 0]
EmptyGraph == [nodes |-> <<>>, adj |-> [n \in Names |-> <<>>], data |-> NoData]

\* G.add_node(n)
AddNode(g, n) ==
    IF n \in Range(g.nodes) THEN g ELSE [g EXCEPT !.nodes = Append(@, n)]

\* G.add_edge(u, v, **attr): attr is the attribute record, or None for no attributes
AddEdge(g, dir, u, v, attr) ==
    LET g1 == AddNode(AddNode(g, u), v)
        a1 == IF v \in Range(g1.adj[u]) THEN g1.adj
              ELSE [g1.adj EXCEPT ![u] = Append(@, v)]
        a2 == IF dir \/ u = v \/ u \in Range(a1[v]) THEN a1
              ELSE [a1 EXCEPT ![v] = Append(@, u)]
        keys == IF dir THEN {<<u, v>>} ELSE {<<u, v>>, <<v, u>>}
        old == [p \in (DOMAIN g1.data) \ keys |-> g1.data[p]]
        new == [p \in keys |->
                  IF attr # None THEN attr
                  ELSE IF p \in DOMAIN g1.data THEN g1.data[p] ELSE None]
    IN [nodes |-> g1.nodes, adj |-> a2, data |-> new @@ old]

\* iteration over G.edges: OutEdgeView for a DiGraph, EdgeView (each edge once,
\* from the endpoint inserted first) for a Graph
RECURSIVE EdgesFrom(_, _, _, _)
EdgesFrom(g, dir, i, j) ==
    IF i > Len(g.nodes) THEN <<>>
    ELSE LET n == g.nodes[i]
             nbrs == g.adj[n]
         IN IF j > Len(nbrs) THEN EdgesFrom(g, dir, i + 1, 1)
            ELSE LET seen == {g.nodes[k] : k \in 1..(i - 1)}
                 IN (IF ~dir /\ nbrs[j] \in seen THEN <<>> ELSE << <<n, nbrs[j]>> >>)
                    \o EdgesFrom(g, dir, i, j + 1)

GEdges(g, dir) == EdgesFrom(g, dir, 1, 1)

\* e in G.edges
EdgeIn(g, dir, e) ==
    \/ e[2] \in Range(g.adj[e[1]])
    \/ ~dir /\ e[1] \in Range(g.adj[e[2]])

(***************************************************************************)
(* nxGraph construction                                                    *)
(***************************************************************************)
RECURSIVE AddNodesFrom(_, _, _)
AddNodesFrom(g, nodes, i) ==
    IF i > Len(nodes) THEN g
    ELSE AddNodesFrom(AddNode(g, nodes[i].name), nodes, i + 1)

RECURSIVE AddEdgesFrom(_, _, _, _, _)
AddEdgesFrom(g, dir, edges, i, withattr) ==
    IF i > Len(edges) THEN g
    ELSE AddEdgesFrom(
            AddEdge(g, dir, edges[i].unode, edges[i].vnode,
                    IF withattr THEN EdgeAttributes(edges[i]).weight ELSE None),
            dir, edges, i + 1, withattr)

\* nxGraph.__init_graph__
InitGraph(g, dir, nodes, edges) ==
    AddEdgesFrom(AddNodesFrom(g, nodes, 1), dir, edges, 1, TRUE)

DnodeKeys(nodes) == {nodes[i].name : i \in 1..Len(nodes)}
DedgeKeys(edges) == {EdgeKey(edges[i]) : i \in 1..Len(edges)}

\* the two assertions of nxGraph.__set_dnodes__
SetDnodesOK(g, nodes) ==
    /\ \A n \in Range(g.nodes) : n \in DnodeKeys(nodes)
    /\ \A n \in DnodeKeys(nodes) : n \in Range(g.nodes)

\* the two assertions of nxGraph.__set_dedges__
SetDedgesOK(g, dir, edges) ==
    /\ \A e \in Range(GEdges(g, dir)) : e \in DedgeKeys(edges)
    /\ \A e \in DedgeKeys(edges) : EdgeIn(g, dir, e)

NoResult == [op |-> "none"]

\* the caller constructs the node objects of dnodes from their keyword arguments:
\* a ValidationError of one of them leaves the caller without nodes for a graph
MakeNodes ==
    /\ phase = "components"
    /\ phase' = IF \A i \in 1..Len(dnodesArg) : ValidateCapacity(dnodesArg[i])
                THEN "new" ELSE "rejected"
    /\ UNCHANGED <<directed, initgraph, dnodesArg, dedgesArg, G, dnodes, dedges, result>>

\* nxGraph.__init__ that gives the caller's G back as it was when a check fails
ConstructRolledBack ==
    /\ phase = "new"
    /\ LET g1 == IF initgraph THEN InitGraph(G, directed, dnodesArg, dedgesArg) ELSE G
       IN IF SetDnodesOK(g1, dnodesArg) /\ SetDedgesOK(g1, directed, dedgesArg)
          THEN G' = g1 /\ phase' = "built" /\ dnodes' = dnodesArg /\ dedges' = dedgesArg
          ELSE G' = G /\ phase' = "failed" /\ UNCHANGED <<dnodes, dedges>>
    /\ UNCHANGED <<directed, initgraph, dnodesArg, dedgesArg, result>>

\* nxGraph.__init__
Construct ==
    /\ phase = "new"
    /\ LET g1 == IF initgraph THEN InitGraph(G, directed, dnodesArg, dedgesArg) ELSE G
       IN /\ G' = g1
          /\ IF SetDnodesOK(g1, dnodesArg)
             THEN /\ dnodes' = dnodesArg
                  /\ IF SetDedgesOK(g1, directed, dedgesArg)
                     THEN phase' = "built" /\ dedges' = dedgesArg
                     ELSE phase' = "failed" /\ dedges' = dedges
             ELSE phase' = "failed" /\ UNCHANGED <<dnodes, dedges>>
    /\ UNCHANGED <<directed, initgraph, dnodesArg, dedgesArg, result>>

(***************************************************************************)
(* nxGraph.alter and nxGraph.adjacent_nodes                                *)
(***************************************************************************)
Raised(error) == [status |-> "error", error |-> error]

\* add_edges_from over a list of (u, v) pairs of g, each taken as (v, u) when flip
RECURSIVE AddPairs(_, _, _, _, _, _)
AddPairs(h, dir, g, pairs, flip, i) ==
    IF i > Len(pairs) THEN h
    ELSE LET u == pairs[i][1]
             v == pairs[i][2]
             next == IF flip THEN AddEdge(h, dir, v, u, g.data[<<u, v>>])
                     ELSE AddEdge(h, dir, u, v, g.data[<<u, v>>])
         IN AddPairs(next, dir, g, pairs, flip, i + 1)

\* the (u, v) pairs of the adjacency of g, node by node
AdjacencyPairs(g) == EdgesFrom(g, TRUE, 1, 1)

\* a reverse() that leaves every edge as it is
ReverseGraphKept(g) == g

\* DiGraph.reverse(): a new DiGraph with the nodes of g and every edge turned round
ReverseGraph(g) ==
    AddPairs([EmptyGraph EXCEPT !.nodes = g.nodes], TRUE, g, AdjacencyPairs(g), TRUE, 1)

\* G.to_undirected(): a new Graph with the nodes of g and its edges without direction
ToUndirected(g) ==
    AddPairs([EmptyGraph EXCEPT !.nodes = g.nodes], FALSE, g, AdjacencyPairs(g), FALSE, 1)

\* nxGraph.alter: the graph it returns, a new graph when reverse or undirected is
\* set and self.G itself otherwise; nx.Graph has no reverse()
Alter(g, dir, reverse, undirected) ==
    IF reverse /\ undirected THEN Raised("AssertionError")
    ELSE IF reverse /\ ~dir THEN Raised("AttributeError")
    ELSE [status |-> "ok",
          graph |-> IF reverse THEN ReverseGraph(g)
                    ELSE IF undirected THEN ToUndirected(g) ELSE g,
          directed |-> dir /\ ~undirected]

\* nxGraph.alter followed by tuple(G.neighbors(node))
AdjacentNodes(g, dir, node, reverse, undirected) ==
    LET got == Alter(g, dir, reverse, undirected)
    IN IF got.status = "error" THEN got
       ELSE IF node \notin Range(got.graph.nodes) THEN Raised("NetworkXError")
       ELSE [status |-> "ok", nodes |-> got.graph.adj[node]]

\* graph.alter(reverse = ..., undirected = ...)
AlterCall ==
    /\ phase = "built"
    /\ result = NoResult
    /\ \E reverse \in BOOLEAN, undirected \in BOOLEAN :
          result' = [op |-> "alter", reverse |-> reverse, undirected |-> undirected,
                     out |-> Alter(G, directed, reverse, undirected)]
    /\ UNCHANGED <<directed, initgraph, dnodesArg, dedgesArg, G, phase, dnodes, dedges>>

\* adjacent_nodes that keeps the graph alter gave it: self.G = self.alter(...)
AdjacentNodesCallInPlace ==
    /\ phase = "built"
    /\ result = NoResult
    /\ \E n \in DnodeKeys(dnodes), reverse \in BOOLEAN, undirected \in BOOLEAN :
          LET got == Alter(G, directed, reverse, undirected)
          IN /\ result' = [op |-> "adjacent_nodes", node |-> n,
                           reverse |-> reverse, undirected |-> undirected,
                           out |-> AdjacentNodes(G, directed, n, reverse, undirected)]
             /\ G' = IF got.status = "ok" THEN got.graph ELSE G
    /\ UNCHANGED <<directed, initgraph, dnodesArg, dedgesArg, phase, dnodes, dedges>>

\* graph.adjacent_nodes(node, reverse = ..., undirected = ...)
AdjacentNodesCall ==
    /\ phase = "built"
    /\ result = NoResult
    /\ \E n \in DnodeKeys(dnodes), reverse \in BOOLEAN, undirected \in BOOLEAN :
          result' = [op |-> "adjacent_nodes", node |-> n,
                     reverse |-> reverse, undirected |-> undirected,
                     out |-> AdjacentNodes(G, directed, n, reverse, undirected)]
    /\ UNCHANGED <<directed, initgraph, dnodesArg, dedgesArg, G, phase, dnodes, dedges>>

(***************************************************************************)
(* nxGraph.inspect and nxGraph.getbycidx                                   *)
(***************************************************************************)
Components == {"node", "edge"}

\* str.lower() on the component names a caller passes
Lower(component) ==
    CASE component = "Node" -> "node"
      [] component = "EDGE" -> "edge"
      [] OTHER -> component

\* nxGraph.__get_component__: self.dnodes or self.dedges
GetComponent(nodes, edges, component) ==
    IF Lower(component) \notin Components THEN Raised("AssertionError")
    ELSE [status |-> "ok",
          kind |-> Lower(component),
          records |-> IF Lower(component) = "node" THEN nodes ELSE edges]

\* a key a caller passes: a node name or a (u, v) tuple, as the tuple of its parts
NameKey(n) == [kind |-> "name", v |-> <<n>>]
PairKey(p) == [kind |-> "pair", v |-> p]

\* the entries of the chosen map stored under the key (at most one)
EntriesUnder(got, key) ==
    {i \in 1..Len(got.records) :
        IF got.kind = "node"
        THEN key.kind = "name" /\ got.records[i].name = key.v[1]
        ELSE key.kind = "pair" /\ EdgeKey(got.records[i]) = key.v}

\* nxGraph.inspect(name, component): the subscript of the chosen map
Inspect(nodes, edges, key, component) ==
    LET got == GetComponent(nodes, edges, component)
    IN IF got.status = "error" THEN got
       ELSE IF EntriesUnder(got, key) = {} THEN Raised("KeyError")
       ELSE [status |-> "ok",
             record |-> got.records[CHOOSE i \in EntriesUnder(got, key) : TRUE]]

\* getbycidx with [-1] for [0]
GetByCidxLast(nodes, edges, cidx, component) ==
    LET got == GetComponent(nodes, edges, component)
    IN IF got.status = "error" THEN got
       ELSE LET found == SelectSeq(got.records, LAMBDA c : c.cidx = cidx)
            IN IF found = <<>> THEN Raised("IndexError")
               ELSE [status |-> "ok", record |-> found[Len(found)]]

\* nxGraph.getbycidx(cidx, component): [c for c in component.values() if ...][0]
GetByCidx(nodes, edges, cidx, component) ==
    LET got == GetComponent(nodes, edges, component)
    IN IF got.status = "error" THEN got
       ELSE LET found == SelectSeq(got.records, LAMBDA c : c.cidx = cidx)
            IN IF found = <<>> THEN Raised("IndexError")
               ELSE [status |-> "ok", record |-> found[1]]

\* the component arguments a caller passes
ComponentArgs == Components \cup {"Node", "vertex"}

\* the (u, v) tuples a caller passes: the keys of the edge map and one more
PairArgs(edges) == DedgeKeys(edges) \cup {<<NameSeq[1], NameSeq[Len(NameSeq)]>>}

\* graph.inspect(name, component = ...)
InspectCall ==
    /\ phase = "built"
    /\ result = NoResult
    /\ \E key \in {NameKey(n) : n \in DnodeKeys(dnodes) \cup {NameSeq[Len(NameSeq)]}}
                  \cup {PairKey(p) : p \in PairArgs(dedges)},
          component \in ComponentArgs :
          result' = [op |-> "inspect", key |-> key, component |-> component,
                     out |-> Inspect(dnodes, dedges, key, component)]
    /\ UNCHANGED <<directed, initgraph, dnodesArg, dedgesArg, G, phase, dnodes, dedges>>

\* graph.getbycidx(cidx, component = ...)
GetByCidxCall ==
    /\ phase = "built"
    /\ result = NoResult
    /\ \E cidx \in {dnodes[i].cidx : i \in 1..Len(dnodes)}
                   \cup {dedges[i].cidx : i \in 1..Len(dedges)} \cup {0},
          component \in ComponentArgs :
          result' = [op |-> "getbycidx", cidx |-> cidx, component |-> component,
                     out |-> GetByCidx(dnodes, dedges, cidx, component)]
    /\ UNCHANGED <<directed, initgraph, dnodesArg, dedgesArg, G, phase, dnodes, dedges>>

(***************************************************************************)
(* Path enumeration (networkx.all_simple_paths as called by getpaths)      *)
(***************************************************************************)
\* the depth-first search of all_simple_paths: the paths to t that extend
\* `visited` through the children j, j+1, ... of its last node, in adjacency order
RECURSIVE SimplePathsVia(_, _, _, _)
SimplePathsVia(g, visited, t, j) ==
    LET nbrs == g.adj[visited[Len(visited)]]
    IN IF j > Len(nbrs) THEN <<>>
       ELSE LET child == nbrs[j]
                here == IF child \in Range(visited) THEN <<>>
                        ELSE IF child = t THEN << Append(visited, child) >>
                        ELSE SimplePathsVia(g, Append(visited, child), t, 1)
            IN here \o SimplePathsVia(g, visited, t, j + 1)

AllSimplePaths(g, s, t) == SimplePathsVia(g, <<s>>, t, 1)

\* itertools.pairwise
Pairwise(p) == [i \in 1..(Len(p) - 1) |-> <<p[i], p[i + 1]>>]

RECURSIVE SumSeq(_)
SumSeq(s) == IF s = <<>> THEN 0 ELSE s[1] + SumSeq(Tail(s))

\* math.prod: the factors are multiples of 0.5 and at most three, so that every
\* product is a whole number of thousandths
RECURSIVE ProdSeq(_)
ProdSeq(s) == IF s = <<>> THEN Unit ELSE (s[1] * ProdSeq(Tail(s))) \div Unit

\* the value networkx reads for weight = attribute on a hop: data.get(attribute, 1)
HopWeight(g, u, v) == IF g.data[<<u, v>>] = None THEN Unit ELSE g.data[<<u, v>>]

PathLength(g, p) == SumSeq([i \in 1..(Len(p) - 1) |-> HopWeight(g, p[i], p[i + 1])])

\* nx.dijkstra_path_length(G, source, target, weight = attribute): the least total
\* weight of a path from source to target (the weights are positive)
DijkstraPathLength(g, s, t) ==
    LET ps == AllSimplePaths(g, s, t)
        lens == {PathLength(g, ps[i]) : i \in 1..Len(ps)}
    IN CHOOSE m \in lens : \A x \in lens : m <= x

\* a caller-supplied cost function: the unweighted number of hops
HopCount(g, s, t) ==
    LET ps == AllSimplePaths(g, s, t)
        lens == {(Len(ps[i]) - 1) * Unit : i \in 1..Len(ps)}
    IN CHOOSE m \in lens : \A x \in lens : m <= x

CostFuncs == {"dijkstra", "hops"}

\* nxcostfunc(self.G, source = u, target = v, weight = attribute)
NxCostFunc(f, g, u, v) ==
    IF f = "dijkstra" THEN DijkstraPathLength(g, u, v) ELSE HopCount(g, u, v)

(***************************************************************************)
(* nxGraph.inspect and nxGraph.getpaths                                    *)
(***************************************************************************)
HasEdgeKey(edges, k) == \E i \in 1..Len(edges) : EdgeKey(edges[i]) = k

\* self.inspect(edge, component = "edge"): the record under the key (KeyError
\* when HasEdgeKey is false)
InspectEdge(edges, k) == edges[CHOOSE i \in 1..Len(edges) : EdgeKey(edges[i]) = k]

\* every edge of the path has a record, and the record a value for the attribute
\* (a KeyError otherwise, from self.dedges[...] or from .attributes[attribute])
HasAttributes(edges, path, attribute) ==
    \A j \in 1..Len(path) :
       /\ HasEdgeKey(edges, path[j])
       /\ attribute \in DOMAIN EdgeAttributes(InspectEdge(edges, path[j]))

\* the attribute values of a path's edges, in path order
PathAttributes(edges, path, attribute) ==
    [j \in 1..Len(path) |-> EdgeAttributes(InspectEdge(edges, path[j]))[attribute]]

\* Combine with the two modes exchanged
CombineExchanged(calculate, ws) ==
    IF calculate = "additive" THEN ProdSeq(ws) ELSE SumSeq(ws)

\* sum(weight) if calculate == "additive" else prod(weight)
Combine(calculate, ws) == IF calculate = "additive" THEN SumSeq(ws) ELSE ProdSeq(ws)

\* PathCost with nxcostfunc called once, for the two ends of the path
PathCostOfEnds(f, g, path) ==
    NxCostFunc(f, g, path[1][1], path[Len(path)][2])

\* the cost of a path: the sum of nxcostfunc over its edges
PathCost(f, g, path) ==
    SumSeq([j \in 1..Len(path) |-> NxCostFunc(f, g, path[j][1], path[j][2])])

\* round(value, digits) of a float: to the nearest multiple of 10^-digits, a tie
\* going to the even multiple (the values are exact binary fractions)
RoundTo(value, digits) ==
    LET step == CASE digits = 0 -> Unit
                  [] digits = 1 -> Unit \div 10
                  [] digits = 2 -> Unit \div 100
                  [] OTHER -> 1
        low == (value \div step) * step
        rest == value - low
    IN IF 2 * rest < step THEN low
       ELSE IF 2 * rest > step THEN low + step
       ELSE IF (low \div step) % 2 = 0 THEN low ELSE low + step

\* if roundvalue: round(value, roundvalue)
RoundValue(value, roundvalue) ==
    IF roundvalue # None /\ roundvalue # 0 THEN RoundTo(value, roundvalue) ELSE value

\* Rtypes with every selector accepted
RtypesAndPaths == {"nodes", "edges", "complete", "paths"}

Rtypes == {"nodes", "edges", "complete"}

\* the body of getpaths after __set_path__, for the node paths that
\* all_simple_paths yields: the dict it returns or the exception it raises.
\* all_simple_paths raises NodeNotFound for a source that is not in G.
GetPathsOver(nodes, g, edgemap, s, t, rtype, attribute, calculate, f, roundvalue) ==
    LET edges == [i \in 1..Len(nodes) |-> Pairwise(nodes[i])]
        weights == [i \in 1..Len(edges) |->
                      RoundValue(Combine(calculate, PathAttributes(edgemap, edges[i], attribute)),
                                 roundvalue)]
        costs == [i \in 1..Len(edges) |-> RoundValue(PathCost(f, g, edges[i]), roundvalue)]
        paths == [nodes |-> nodes, edges |-> edges, weights |-> weights, costs |-> costs]
        kept == CASE rtype = "nodes" -> {"nodes", "weights", "costs"}
                  [] rtype = "edges" -> {"edges", "weights", "costs"}
                  [] OTHER -> {"nodes", "edges", "weights", "costs"}
    IN IF s \notin Range(g.nodes) THEN Raised("NodeNotFound")
       ELSE IF \E i \in 1..Len(edges) : ~HasAttributes(edgemap, edges[i], attribute)
       THEN Raised("KeyError")
       ELSE IF rtype \notin Rtypes THEN Raised("ValueError")
       ELSE [status |-> "ok",
             paths |-> [k \in kept |-> paths[k]],
             source |-> s,
             target |-> t]

\* the body of getpaths for two different names. A target that is not in G is
\* taken as the set of its characters, here the name itself, to which there is
\* no path.
GetPathsBody(g, edgemap, s, t, rtype, attribute, calculate, f, roundvalue) ==
    GetPathsOver(AllSimplePaths(g, s, t), g, edgemap, s, t, rtype, attribute, calculate,
                 f, roundvalue)

\* all_simple_paths(G, s, s): the releases of networkx that count the single node
\* as a simple path yield [s], the others yield nothing; the repository requires
\* no release
SameEndsPaths(s) == {<< <<s>> >>, <<>>}

\* getpaths(source, target, calculate = ..., nxcostfunc = ...) between nodes of the
\* graph, the other arguments at their defaults
GetPathsResult(g, edgemap, s, t, calculate, f) ==
    GetPathsBody(g, edgemap, s, t, "complete", "weight", calculate, f, None)

\* the assertions of nxGraph.__set_path__ on two names: the source is checked
\* twice and the target not at all
SetPathOK(nodes, s, t) == s \in DnodeKeys(nodes) /\ s \in DnodeKeys(nodes)

\* nxGraph.getpaths
GetPathsCall(nodes, g, edgemap, s, t, rtype, attribute, calculate, f, roundvalue) ==
    IF ~SetPathOK(nodes, s, t) THEN Raised("AssertionError")
    ELSE GetPathsBody(g, edgemap, s, t, rtype, attribute, calculate, f, roundvalue)

Calculates == {"additive", "multiplicative"}

\* the names a caller can pass that are not nodes of the graph
Unregistered(nodes) == {NameSeq[Len(NameSeq)]} \ DnodeKeys(nodes)

\* what a caller can pass where the defaults are not taken
Attributes == {"weight", "cost"}
RoundValues == {None, 0, 1}

\* getpaths(source, target, calculate = ..., nxcostfunc = ...) between two nodes
GetPaths ==
    /\ phase = "built"
    /\ result = NoResult
    /\ \E s \in DnodeKeys(dnodes), t \in DnodeKeys(dnodes), c \in Calculates, f \in CostFuncs :
          /\ s # t
          /\ result' = [op |-> "getpaths", source |-> s, target |-> t,
                        rtype |-> "complete", attribute |-> "weight",
                        calculate |-> c, nxcostfunc |-> f, roundvalue |-> None,
                        out |-> GetPathsCall(dnodes, G, dedges, s, t, "complete", "weight",
                                             c, f, None)]
    /\ UNCHANGED <<directed, initgraph, dnodesArg, dedgesArg, G, phase, dnodes, dedges>>

\* getpaths(s, s, calculate = ...) for a node of the graph
GetPathsSame ==
    /\ phase = "built"
    /\ result = NoResult
    /\ \E s \in DnodeKeys(dnodes), c \in Calculates :
       \E nodes \in SameEndsPaths(s) :
          result' = [op |-> "getpaths", source |-> s, target |-> s,
                     rtype |-> "complete", attribute |-> "weight",
                     calculate |-> c, nxcostfunc |-> "dijkstra", roundvalue |-> None,
                     out |-> IF ~SetPathOK(dnodes, s, s) THEN Raised("AssertionError")
                             ELSE GetPathsOver(nodes, G, dedges, s, s, "complete",
                                               "weight", c, "dijkstra", None)]
    /\ UNCHANGED <<directed, initgraph, dnodesArg, dedgesArg, G, phase, dnodes, dedges>>

\* getpaths with any source, target, rtype, attribute, calculate and roundvalue
GetPathsWith ==
    /\ phase = "built"
    /\ result = NoResult
    /\ \E s \in DnodeKeys(dnodes) \cup Unregistered(dnodes),
          t \in DnodeKeys(dnodes) \cup Unregistered(dnodes),
          rtype \in Rtypes \cup {"paths"},
          attribute \in Attributes,
          c \in Calculates \cup {"average"},
          rv \in RoundValues :
          /\ s # t
          /\ result' = [op |-> "getpaths", source |-> s, target |-> t,
                        rtype |-> rtype, attribute |-> attribute,
                        calculate |-> c, nxcostfunc |-> "dijkstra", roundvalue |-> rv,
                        out |-> GetPathsCall(dnodes, G, dedges, s, t, rtype, attribute,
                                             c, "dijkstra", rv)]
    /\ UNCHANGED <<directed, initgraph, dnodesArg, dedgesArg, G, phase, dnodes, dedges>>

(***************************************************************************)
(* nxGraph.sortedpaths                                                     *)
(***************************************************************************)
\* Senses with 0 accepted
SensesAndZero == {1, -1, 0}

Senses == {1, -1}
Cattributes == {"weights", "costs"}

BoolInt(b) == IF b THEN 1 ELSE 0

\* sortkey(i): (paths[cattribute][i] is None, paths[cattribute][i])
SortKey(values, i) == <<BoolInt(values[i] = None), values[i]>>

\* Python's order on pairs
KeyLess(a, b) == a[1] < b[1] \/ (a[1] = b[1] /\ a[2] < b[2])

\* x sorts strictly before y
Before(x, y, reverse) == IF reverse THEN KeyLess(y, x) ELSE KeyLess(x, y)

RECURSIVE InsertIdx(_, _, _, _, _)
InsertIdx(out, x, keys, reverse, p) ==
    IF p > Len(out) THEN Append(out, x)
    ELSE IF Before(keys[x], keys[out[p]], reverse)
         THEN SubSeq(out, 1, p - 1) \o <<x>> \o SubSeq(out, p, Len(out))
         ELSE InsertIdx(out, x, keys, reverse, p + 1)

RECURSIVE SortedFrom(_, _, _, _)
SortedFrom(out, keys, reverse, i) ==
    IF i > Len(keys) THEN out
    ELSE SortedFrom(InsertIdx(out, i, keys, reverse, 1), keys, reverse, i + 1)

\* sorted(range(n), key = ..., reverse = ...): the positions of `keys` in sorted
\* order; the sort is stable, also when reverse is true
Sorted(keys, reverse) == SortedFrom(<<>>, keys, reverse, 1)

\* Ordered with the sense taken the other way round
OrderedAgainstSense(values, sense) ==
    Sorted([i \in 1..Len(values) |-> SortKey(values, i)], sense = 1)

\* ordered = sorted(range(n), key = sortkey, reverse = False if sense == 1 else True)
Ordered(values, sense) ==
    Sorted([i \in 1..Len(values) |-> SortKey(values, i)], sense # 1)

\* [vi for _, vi in sorted(zip(ordered, v))]: the pairs (ordered[j], v[j]) sorted
\* by their first component (the components are distinct, so v is never compared)
ZipSorted(ordered, v) ==
    LET js == Sorted([j \in 1..Len(ordered) |-> <<ordered[j], 0>>], FALSE)
    IN [m \in 1..Len(js) |-> v[js[m]]]

\* Ranked with only the ranking attribute reordered
RankedKeyOnly(paths, cattribute, sense) ==
    LET ordered == Ordered(paths[cattribute], sense)
    IN [k \in DOMAIN paths |->
          IF k = cattribute THEN ZipSorted(ordered, paths[k]) ELSE paths[k]]

\* the "paths" batch sortedpaths returns for the batch getpaths gave it
Ranked(paths, cattribute, sense) ==
    LET ordered == Ordered(paths[cattribute], sense)
    IN [k \in DOMAIN paths |-> ZipSorted(ordered, paths[k])]

\* sortedpaths after its call of getpaths returned or raised `got`
RankedResult(got, sense, cattribute) ==
    IF got.status = "error" THEN got
    ELSE IF sense \notin Senses THEN Raised("AssertionError")
    ELSE [status |-> "ok",
          paths |-> Ranked(got.paths, cattribute, sense),
          source |-> got.source,
          target |-> got.target]

\* sortedpaths(source, target, sense, cattribute, calculate = ..., nxcostfunc = ...)
\* between nodes of the graph
SortedPathsResult(g, edgemap, s, t, sense, cattribute, calculate, f) ==
    RankedResult(GetPathsResult(g, edgemap, s, t, calculate, f), sense, cattribute)

\* nxGraph.sortedpaths
SortedPathsCall(nodes, g, edgemap, s, t, sense, cattribute, attribute, calculate, f, roundvalue) ==
    RankedResult(GetPathsCall(nodes, g, edgemap, s, t, "complete", attribute, calculate,
                              f, roundvalue),
                 sense, cattribute)

\* sortedpaths(source, target, sense, cattribute, calculate = ...) between two nodes
SortedPaths ==
    /\ phase = "built"
    /\ result = NoResult
    /\ \E s \in DnodeKeys(dnodes), t \in DnodeKeys(dnodes), c \in Calculates,
          sense \in Senses, ca \in Cattributes :
          /\ s # t
          /\ result' = [op |-> "sortedpaths", source |-> s, target |-> t,
                        attribute |-> "weight", calculate |-> c,
                        nxcostfunc |-> "dijkstra", roundvalue |-> None,
                        sense |-> sense, cattribute |-> ca,
                        out |-> SortedPathsCall(dnodes, G, dedges, s, t, sense, ca, "weight",
                                                c, "dijkstra", None)]
    /\ UNCHANGED <<directed, initgraph, dnodesArg, dedgesArg, G, phase, dnodes, dedges>>

\* sortedpaths with any source, target, sense, attribute, calculate and roundvalue
SortedPathsWith ==
    /\ phase = "built"
    /\ result = NoResult
    /\ \E s \in DnodeKeys(dnodes) \cup Unregistered(dnodes),
          t \in DnodeKeys(dnodes) \cup Unregistered(dnodes),
          sense \in Senses \cup {0},
          ca \in Cattributes,
          attribute \in Attributes,
          c \in Calculates,
          rv \in RoundValues :
          /\ s # t
          /\ result' = [op |-> "sortedpaths", source |-> s, target |-> t,
                        attribute |-> attribute, calculate |-> c,
                        nxcostfunc |-> "dijkstra", roundvalue |-> rv,
                        sense |-> sense, cattribute |-> ca,
                        out |-> SortedPathsCall(dnodes, G, dedges, s, t, sense, ca, attribute,
                                                c, "dijkstra", rv)]
    /\ UNCHANGED <<directed, initgraph, dnodesArg, dedgesArg, G, phase, dnodes, dedges>>

\* the ranking step of sortedpaths applied to a batch as such
RankBatch ==
    /\ phase = "ranking"
    /\ result.op = "batch"
    /\ \E sense \in Senses, ca \in Cattributes :
          result' = [op |-> "ranked", sense |-> sense, cattribute |-> ca,
                     batch |-> result.paths,
                     out |-> [status |-> "ok", paths |-> Ranked(result.paths, ca, sense)]]
    /\ UNCHANGED <<directed, initgraph, dnodesArg, dedgesArg, G, phase, dnodes, dedges>>

(***************************************************************************)
(* PuLPModel                                                               *)
(***************************************************************************)
NoBound == <<>>

\* p.LpVariable(name): lowBound = None, upBound = None
LpVariable(name) == [name |-> name, lowBound |-> NoBound, upBound |-> NoBound]

\* DefineObjective without the weights: every coefficient is 1.0
DefineObjectiveUnweighted(g, dir, edgemap) ==
    LET es == GEdges(g, dir)
    IN [i \in 1..Len(es) |->
          [coeff |-> Unit, var |-> LpVariable(InspectEdge(edgemap, es[i]).cidx)]]

\* PuLPModel.__define_objective__: one term per edge of G.edges
DefineObjective(g, dir, edgemap) ==
    LET es == GEdges(g, dir)
    IN [i \in 1..Len(es) |->
          LET edge == InspectEdge(edgemap, es[i])
          IN [coeff |-> EdgeWeight(edge), var |-> LpVariable(edge.cidx)]]

\* LpProblem.variables(): the variables of the objective and the constraints,
\* sorted by name
Variables(objective) ==
    LET vs == [i \in 1..Len(objective) |-> objective[i].var]
        js == Sorted([i \in 1..Len(vs) |-> <<vs[i].name, 0>>], FALSE)
    IN [m \in 1..Len(js) |-> vs[js[m]]]

\* PuLPModel._sense
LpSense(sense) == IF sense = -1 THEN "LpMinimize" ELSE "LpMaximize"

\* PuLPModel.__init__: the validation of the fields (validate_sense; an assertion
\* that fails in a validator is raised as a ValidationError), then the problem
\* with its objective
PuLPModelResult(g, dir, edgemap, sense) ==
    IF sense \notin Senses THEN Raised("ValidationError")
    ELSE LET objective == DefineObjective(g, dir, edgemap)
         IN [status |-> "ok",
             lpsense |-> LpSense(sense),
             objective |-> objective,
             constraints |-> <<>>,
             nvariables |-> Variables(objective)]

\* PuLPModel(name = ..., network = ..., sense = ...)
BuildModel ==
    /\ phase = "built"
    /\ result = NoResult
    /\ \E sense \in Senses :
          result' = [op |-> "PuLPModel", sense |-> sense,
                     out |-> PuLPModelResult(G, directed, dedges, sense)]
    /\ UNCHANGED <<directed, initgraph, dnodesArg, dedgesArg, G, phase, dnodes, dedges>>

\* PuLPModel(name = ..., network = ..., sense = ...) with any sense
BuildModelWith ==
    /\ phase = "built"
    /\ result = NoResult
    /\ \E sense \in Senses \cup {0} :
          result' = [op |-> "PuLPModel", sense |-> sense,
                     out |-> PuLPModelResult(G, directed, dedges, sense)]
    /\ UNCHANGED <<directed, initgraph, dnodesArg, dedgesArg, G, phase, dnodes, dedges>>

\* self.network.dnodes[name]
InspectNode(nodes, name) == nodes[CHOOSE i \in 1..Len(nodes) : nodes[i].name = name]

\* the orders in which list(set(...)) can give the members of S
Orders(S) ==
    {o \in [1..Cardinality(S) -> S] : \A i, j \in 1..Cardinality(S) : i # j => o[i] # o[j]}

\* the suppliers adjacent_nodes(node.name, reverse = True) gives for every demand node
SuppliersOf(g, dir, demandnodes) ==
    [i \in 1..Len(demandnodes) |-> AdjacentNodes(g, dir, demandnodes[i].name, TRUE, FALSE)]

\* set([supplier for suppliers in ... for supplier in suppliers]); empty when the
\* demand records cannot be built
SupplierSet(found) ==
    IF \E i \in 1..Len(found) : found[i].status = "error" THEN {}
    ELSE UNION {Range(found[i].nodes) : i \in 1..Len(found)}

\* PuLPModel.create_constraints(demandnodes), `found` being what adjacent_nodes gave
\* for the demand nodes and `order` the order in which the set of suppliers is listed
CreateConstraintsResult(g, dir, nodemap, edgemap, nvariables, demandnodes, found, order) ==
    LET demand == [i \in 1..Len(demandnodes) |->
                     [object |-> demandnodes[i],
                      demand |-> demandnodes[i].demand,
                      suppliers |-> found[i].nodes]]
        supply == [k \in 1..Len(order) |->
                     [object |-> InspectNode(nodemap, order[k]),
                      demanders |-> AdjacentNodes(g, dir, order[k], FALSE, FALSE).nodes]]
        iterable(k) == [j \in 1..Len(supply[k].demanders) |->
                          InspectEdge(edgemap, <<supply[k].object.name, supply[k].demanders[j]>>).cidx]
        iterables == [k \in 1..Len(supply) |->
                        [object |-> supply[k].object,
                         variables |-> SelectSeq(nvariables,
                                          LAMBDA v : v.name \in Range(iterable(k)))]]
    IN IF \E i \in 1..Len(found) : found[i].status = "error"
       THEN found[CHOOSE i \in 1..Len(found) :
                     /\ found[i].status = "error"
                     /\ \A j \in 1..(i - 1) : found[j].status = "ok"]
       ELSE IF \E k \in 1..Len(supply) : \E j \in 1..Len(supply[k].demanders) :
                  ~HasEdgeKey(edgemap, <<supply[k].object.name, supply[k].demanders[j]>>)
       THEN Raised("KeyError")
       ELSE [status |-> "ok", demand |-> demand, supply |-> supply, iterables |-> iterables]

\* model.create_constraints(demandnodes) on the model just built
CreateConstraints ==
    /\ phase = "built"
    /\ result.op = "PuLPModel"
    /\ result.out.status = "ok"
    /\ \E D \in SUBSET DnodeKeys(dnodes) :
          LET demandnodes == SelectSeq(dnodes, LAMBDA n : n.name \in D)
          IN \E found \in {SuppliersOf(G, directed, demandnodes)} :
                \E order \in Orders(SupplierSet(found)) :
                   result' = [op |-> "create_constraints",
                              demandnodes |-> demandnodes,
                              nvariables |-> result.out.nvariables,
                              out |-> CreateConstraintsResult(G, directed, dnodes, dedges,
                                         result.out.nvariables, demandnodes, found, order)]
    /\ UNCHANGED <<directed, initgraph, dnodesArg, dedgesArg, G, phase, dnodes, dedges>>

(***************************************************************************)
(* Initial states and specifications                                       *)
(***************************************************************************)
\* the dict the caller builds from a set of keys: in lexicographic key order,
\* or in the reverse of it
EdgeDict(pairs, S, w, backwards) ==
    LET inorder == SelectSeq(pairs, LAMBDA p : p \in S)
        keys == IF backwards THEN Reverse(inorder) ELSE inorder
    IN [i \in 1..Len(keys) |-> EdgeRecord(keys[i][1], keys[i][2], w[keys[i]])]

NodeDict(names) == [i \in 1..Len(names) |-> NodeRecord(names[i])]

\* the graph a caller has prepared itself, with or without the edge attributes
Prepared(dir, nodes, edges, withattr) ==
    AddEdgesFrom(AddNodesFrom(EmptyGraph, nodes, 1), dir, edges, 1, withattr)

\* the edge weights 1.0, 2.0, ... and 0.5, 1.5, ...
WholeWeights == {k * Unit : k \in 1..MaxWeight}
HalfWeights == {((2 * k - 1) * Unit) \div 2 : k \in 1..MaxWeight}

GeneralNames == SubSeq(NameSeq, 1, Len(NameSeq) - 1)
GeneralPairs == PairsFrom(GeneralNames, 1, 1)
LayeredPairs == SelectSeq(PairsFrom(NameSeq, 1, 1),
                          LAMBDA p : NameIndex(p[1]) < NameIndex(p[2]))

\* any graph over the general names: directed or not, built by the constructor
\* or prepared by the caller, the node map covering the edges or not
Init ==
    /\ directed \in BOOLEAN
    /\ \E n \in 2..Len(GeneralNames) : dnodesArg = NodeDict(SubSeq(GeneralNames, 1, n))
    /\ \E S \in SUBSET Range(GeneralPairs) :
          /\ Cardinality(S) <= MaxEdges
          /\ \E w \in [S -> WholeWeights], backwards \in BOOLEAN :
                dedgesArg = EdgeDict(GeneralPairs, S, w, backwards)
    /\ \E caller \in {"fresh", "prepared", "bare", "stale", "unfilled"} :
          /\ initgraph = (caller \in {"fresh", "stale"})
          /\ G = CASE caller = "prepared" -> Prepared(directed, dnodesArg, dedgesArg, TRUE)
                   [] caller = "bare" -> Prepared(directed, dnodesArg, dedgesArg, FALSE)
                   [] caller = "stale" -> AddNode(EmptyGraph, NameSeq[Len(NameSeq)])
                   [] OTHER -> EmptyGraph
    /\ phase = "new"
    /\ dnodes = <<>>
    /\ dedges = <<>>
    /\ result = NoResult

\* the caller takes what the call returned or raised; the next call can start
Return ==
    /\ phase = "built"
    /\ result # NoResult
    /\ result' = NoResult
    /\ UNCHANGED <<directed, initgraph, dnodesArg, dedgesArg, G, phase, dnodes, dedges>>

Next ==
    \/ Construct
    \/ GetPaths
    \/ SortedPaths
    \/ AdjacentNodesCall
    \/ BuildModel
    \/ CreateConstraints
    \/ Return

Spec == Init /\ [][Next]_vars

\* the construction alone, on every graph and every pair of maps of Init
NextBuild == Construct

SpecBuild == Init /\ [][NextBuild]_vars

\* layered directed graphs over all the names (every edge goes forward in the
\* name order), built by the constructor: up to five paths between two nodes
InitRank ==
    /\ directed = TRUE
    /\ initgraph = TRUE
    /\ dnodesArg = NodeDict(NameSeq)
    /\ \E S \in SUBSET Range(LayeredPairs) :
          \E w \in [S -> WholeWeights], backwards \in BOOLEAN :
             dedgesArg = EdgeDict(LayeredPairs, S, w, backwards)
    /\ G = EmptyGraph
    /\ phase = "new"
    /\ dnodes = <<>>
    /\ dedges = <<>>
    /\ result = NoResult

NextRank == Construct \/ GetPaths \/ SortedPaths \/ Return

SpecRank == InitRank /\ [][NextRank]_vars

\* directed graphs over the general names with edge weights 0.5, 1.5, ..., built
\* by the constructor
InitArgs ==
    /\ directed = TRUE
    /\ initgraph = TRUE
    /\ dnodesArg = NodeDict(GeneralNames)
    /\ \E S \in SUBSET Range(GeneralPairs) :
          /\ Cardinality(S) <= MaxArgEdges
          /\ \E w \in [S -> HalfWeights] : dedgesArg = EdgeDict(GeneralPairs, S, w, FALSE)
    /\ G = EmptyGraph
    /\ phase = "new"
    /\ dnodes = <<>>
    /\ dedges = <<>>
    /\ result = NoResult

NextArgs == Construct \/ GetPathsWith \/ SortedPathsWith \/ BuildModelWith \/ Return

SpecArgs == InitArgs /\ [][NextArgs]_vars

\* edge.weight
ReadWeight ==
    /\ phase = "components"
    /\ result = NoResult
    /\ \E i \in 1..Len(dedgesArg) :
          result' = [op |-> "weight", edge |-> dedgesArg[i],
                     out |-> [status |-> "ok", value |-> VariantWeight(dedgesArg[i])]]
    /\ UNCHANGED <<directed, initgraph, dnodesArg, dedgesArg, G, phase, dnodes, dedges>>

\* edge.attributes
ReadAttributes ==
    /\ phase = "components"
    /\ result = NoResult
    /\ \E i \in 1..Len(dedgesArg) :
          result' = [op |-> "attributes", edge |-> dedgesArg[i],
                     out |-> VariantAttributes(dedgesArg[i])]
    /\ UNCHANGED <<directed, initgraph, dnodesArg, dedgesArg, G, phase, dnodes, dedges>>

\* G.add_edge(edge.unode.name, edge.vnode.name, **edge.attributes), the step of
\* nxGraph.__init_graph__ for one edge
AddVariantEdge ==
    /\ phase = "components"
    /\ result = NoResult
    /\ \E i \in 1..Len(dedgesArg) :
          LET e == dedgesArg[i]
              got == VariantAttributes(e)
          IN /\ result' = [op |-> "add_edge", edge |-> e, out |-> got]
             /\ G' = IF got.status = "error" THEN G
                     ELSE AddEdge(G, directed, e.unode, e.vnode, got.attributes.weight)
    /\ UNCHANGED <<directed, initgraph, dnodesArg, dedgesArg, phase, dnodes, dedges>>

\* the attribute names and the values a caller assigns to an edge
AssignedNames == {"_color", "label", "time", "cost", "unode", "cidx"}
AssignedValues == {DefaultColor, "#2F56A5"}

\* edge.<name> = value
SetAttrCall ==
    /\ phase = "components"
    /\ result = NoResult
    /\ \E i \in 1..Len(dedgesArg), name \in AssignedNames, value \in AssignedValues :
          LET got == SetAttr(dedgesArg[i], name, value)
          IN /\ result' = [op |-> "setattr", edge |-> dedgesArg[i], index |-> i,
                           name |-> name, value |-> value,
                           out |-> IF got.status = "ok" THEN [status |-> "ok"]
                                   ELSE Raised(got.error)]
             /\ dedgesArg' = [dedgesArg EXCEPT ![i] = got.edge]
    /\ UNCHANGED <<directed, initgraph, dnodesArg, G, phase, dnodes, dedges>>

\* the times and costs of an edge: 0.5, 1.0, 1.5, ...
EdgeValues == WholeWeights \cup HalfWeights

\* one edge of any class between two nodes that the graph holds already
InitEdges ==
    /\ directed \in BOOLEAN
    /\ initgraph = TRUE
    /\ dnodesArg = NodeDict(GeneralNames)
    /\ \E variant \in EdgeVariants, p \in Range(GeneralPairs),
          time \in EdgeValues, cost \in EdgeValues :
          dedgesArg = << VariantEdge(variant, p[1], p[2], time, cost) >>
    /\ G = AddNodesFrom(EmptyGraph, dnodesArg, 1)
    /\ phase = "components"
    /\ dnodes = <<>>
    /\ dedges = <<>>
    /\ result = NoResult

NextEdges == ReadWeight \/ ReadAttributes \/ AddVariantEdge \/ SetAttrCall

SpecEdges == InitEdges /\ [][NextEdges]_vars

\* directed graphs over the general names with edge weights 0.5, 1.0, 1.5, ...,
\* built by the constructor: an edge can be longer than a way round it
InitDetour ==
    /\ directed = TRUE
    /\ initgraph = TRUE
    /\ dnodesArg = NodeDict(GeneralNames)
    /\ \E S \in SUBSET Range(GeneralPairs) :
          /\ Cardinality(S) <= MaxEdges
          /\ \E w \in [S -> EdgeValues] : dedgesArg = EdgeDict(GeneralPairs, S, w, FALSE)
    /\ G = EmptyGraph
    /\ phase = "new"
    /\ dnodes = <<>>
    /\ dedges = <<>>
    /\ result = NoResult

NextDetour == Construct \/ GetPaths \/ Return

SpecDetour == InitDetour /\ [][NextDetour]_vars

\* the edges of the scenario of the specification: A -> B (2), B -> D (3),
\* A -> C (1), C -> D (10)
ScenarioEdges ==
    {<<"A", "B", 2 * Unit>>, <<"B", "D", 3 * Unit>>,
     <<"A", "C", 1 * Unit>>, <<"C", "D", 10 * Unit>>}

\* the scenario graph, its edge map in any insertion order, built by the
\* constructor or prepared by the caller
InitScenario ==
    /\ directed = TRUE
    /\ dnodesArg = NodeDict(NameSeq)
    /\ \E o \in Orders(ScenarioEdges) :
          dedgesArg = [i \in 1..Cardinality(ScenarioEdges) |->
                         EdgeRecord(o[i][1], o[i][2], o[i][3])]
    /\ initgraph \in BOOLEAN
    /\ G = IF initgraph THEN EmptyGraph ELSE Prepared(directed, dnodesArg, dedgesArg, TRUE)
    /\ phase = "new"
    /\ dnodes = <<>>
    /\ dedges = <<>>
    /\ result = NoResult

NextScenario == Construct \/ GetPaths \/ SortedPaths \/ Return

SpecScenario == InitScenario /\ [][NextScenario]_vars

\* graphs over the general names, directed or not, built by the constructor, and
\* every query of nxGraph on them
InitQuery ==
    /\ directed \in BOOLEAN
    /\ initgraph = TRUE
    /\ dnodesArg = NodeDict(GeneralNames)
    /\ \E S \in SUBSET Range(GeneralPairs) :
          /\ Cardinality(S) <= MaxArgEdges
          /\ \E w \in [S -> WholeWeights] : dedgesArg = EdgeDict(GeneralPairs, S, w, FALSE)
    /\ G = EmptyGraph
    /\ phase = "new"
    /\ dnodes = <<>>
    /\ dedges = <<>>
    /\ result = NoResult

NextQuery ==
    \/ Construct
    \/ InspectCall
    \/ GetByCidxCall
    \/ AlterCall
    \/ AdjacentNodesCall
    \/ GetPaths
    \/ SortedPaths
    \/ Return

SpecQuery == InitQuery /\ [][NextQuery]_vars

\* path queries from a node to itself
NextSame == Construct \/ GetPathsSame \/ Return

SpecSame == InitArgs /\ [][NextSame]_vars

\* the capacity bounds a caller passes for a node
MinCapacities == {0, 10}
MaxCapacities == {5, Infinity}

\* directed graphs over the general names whose nodes are still to be constructed,
\* each from a capacity interval of the caller's choice
InitNodes ==
    /\ directed = TRUE
    /\ initgraph = TRUE
    /\ \E lo \in [Range(GeneralNames) -> MinCapacities],
          hi \in [Range(GeneralNames) -> MaxCapacities] :
          dnodesArg = [i \in 1..Len(GeneralNames) |->
                         NodeWith(GeneralNames[i], lo[GeneralNames[i]], hi[GeneralNames[i]])]
    /\ \E S \in SUBSET Range(GeneralPairs) :
          /\ Cardinality(S) <= MaxArgEdges
          /\ \E w \in [S -> {Unit}] : dedgesArg = EdgeDict(GeneralPairs, S, w, FALSE)
    /\ G = EmptyGraph
    /\ phase = "components"
    /\ dnodes = <<>>
    /\ dedges = <<>>
    /\ result = NoResult

NextNodes == MakeNodes \/ Construct \/ GetPaths \/ SortedPaths \/ Return

SpecNodes == InitNodes /\ [][NextNodes]_vars

\* batches of up to MaxBatch paths whose weights and costs may be undefined
InitRankKey ==
    /\ directed = TRUE
    /\ initgraph = TRUE
    /\ dnodesArg = <<>>
    /\ dedgesArg = <<>>
    /\ G = EmptyGraph
    /\ phase = "ranking"
    /\ dnodes = <<>>
    /\ dedges = <<>>
    /\ \E n \in 1..MaxBatch :
          \E ws \in [1..n -> WholeWeights \cup {None}],
             cs \in [1..n -> WholeWeights \cup {None}] :
             result = [op |-> "batch",
                       paths |-> [nodes |-> [i \in 1..n |-> <<"A", i>>],
                                  edges |-> [i \in 1..n |-> << <<"A", i>> >>],
                                  weights |-> ws,
                                  costs |-> cs]]

NextRankKey == RankBatch

SpecRankKey == InitRankKey /\ [][NextRankKey]_vars

(***************************************************************************)
(* Properties                                                              *)
(***************************************************************************)
\* an attribute record is the record of a topology edge: its key is the edge,
\* in either orientation when the graph is undirected
RecordOf(dir, rec, e) ==
    \/ EdgeKey(rec) = e
    \/ ~dir /\ EdgeKey(rec) = <<e[2], e[1]>>

\* C1: in every graph that construction returns, every node and every edge of the
\* topology has exactly one attribute record and every attribute record belongs to
\* exactly one topology entry (a mismatch makes construction fail).
TopologyAttributeBijection ==
    phase = "built" =>
        LET es == GEdges(G, directed)
        IN /\ \A n \in Range(G.nodes) :
                 Cardinality({i \in 1..Len(dnodes) : dnodes[i].name = n}) = 1
           /\ \A i \in 1..Len(dnodes) :
                 Cardinality({k \in 1..Len(G.nodes) : G.nodes[k] = dnodes[i].name}) = 1
           /\ \A k \in 1..Len(es) :
                 Cardinality({i \in 1..Len(dedges) : RecordOf(directed, dedges[i], es[k])}) = 1
           /\ \A i \in 1..Len(dedges) :
                 Cardinality({k \in 1..Len(es) : RecordOf(directed, dedges[i], es[k])}) = 1

\* the same for directed graphs only
DirectedTopologyAttributeBijection == directed => TopologyAttributeBijection

\* the sequences of pairwise different nodes of g
NodeSeqs(g) ==
    UNION {{p \in [1..k -> Range(g.nodes)] : \A i, j \in 1..k : i # j => p[i] # p[j]}
           : k \in 1..Len(g.nodes)}

\* the simple paths from s to t in the topology, as a set
SimplePathSet(g, s, t) ==
    {p \in NodeSeqs(g) :
        /\ p[1] = s
        /\ p[Len(p)] = t
        /\ \A i \in 1..(Len(p) - 1) : p[i + 1] \in Range(g.adj[p[i]])}

NoDuplicates(s) == \A i, j \in 1..Len(s) : i # j => s[i] # s[j]

\* what getpaths returns is the set of simple paths, each once
ReturnsTheSimplePaths(r) ==
    /\ Range(r.out.paths.nodes) = SimplePathSet(G, r.source, r.target)
    /\ NoDuplicates(r.out.paths.nodes)

\* C2: for every built graph and registered s # t, getpaths(s, t) returns exactly
\* the simple paths from s to t, each once, and an empty batch (no error) when t
\* is unreachable from s.
GetPathsEnumeratesSimplePaths ==
    result.op = "getpaths" =>
        /\ result.out.status = "ok"
        /\ ReturnsTheSimplePaths(result)
        /\ SimplePathSet(G, result.source, result.target) = {} =>
              /\ result.out.paths.nodes = <<>>
              /\ result.out.paths.edges = <<>>
              /\ result.out.paths.weights = <<>>
              /\ result.out.paths.costs = <<>>

\* whenever getpaths returns a batch, it is the simple paths
ReturnedPathsAreTheSimplePaths ==
    (result.op = "getpaths" /\ result.out.status = "ok") => ReturnsTheSimplePaths(result)

\* on a directed graph getpaths never fails between registered nodes
DirectedGetPathsEnumeratesSimplePaths == directed => GetPathsEnumeratesSimplePaths

\* the attribute record of the edge between the k-th and the next node of a path
RecordAt(p, k) ==
    CHOOSE rec \in Range(dedges) : rec.unode = p[k] /\ rec.vnode = p[k + 1]

\* the sum and the product of the edge weights of a node path, from the records
WeightSum(p) ==
    LET acc[k \in 0..(Len(p) - 1)] == IF k = 0 THEN 0 ELSE acc[k - 1] + RecordAt(p, k).time
    IN acc[Len(p) - 1]

WeightProduct(p) ==
    LET acc[k \in 0..(Len(p) - 1)] ==
            IF k = 0 THEN Unit ELSE (acc[k - 1] * RecordAt(p, k).time) \div Unit
    IN acc[Len(p) - 1]

\* C3: for every path getpaths returns, weights[i] is the sum of the attribute over
\* the path's edges when calculate is "additive" and their product when it is
\* "multiplicative"; on a path of one edge both are the value of that edge.
WeightsAreSumOrProduct ==
    (result.op = "getpaths" /\ result.out.status = "ok") =>
        LET ps == result.out.paths
        IN \A i \in 1..Len(ps.nodes) :
              /\ result.calculate = "additive" => ps.weights[i] = WeightSum(ps.nodes[i])
              /\ result.calculate = "multiplicative" =>
                    ps.weights[i] = WeightProduct(ps.nodes[i])
              /\ Len(ps.nodes[i]) = 2 => ps.weights[i] = RecordAt(ps.nodes[i], 1).time

\* C3 witness: an additive batch with a path of several edges whose sum is not
\* its product
WeightsWitness ==
    /\ result.op = "getpaths"
    /\ result.out.status = "ok"
    /\ result.calculate = "additive"
    /\ \E i \in 1..Len(result.out.paths.nodes) :
          /\ Len(result.out.paths.nodes[i]) > 2
          /\ WeightSum(result.out.paths.nodes[i]) # WeightProduct(result.out.paths.nodes[i])
          /\ result.out.paths.weights[i] = WeightSum(result.out.paths.nodes[i])

\* the sum of the cost function over the consecutive node pairs of a path
CostSum(f, p) ==
    LET acc[k \in 0..(Len(p) - 1)] ==
            IF k = 0 THEN 0 ELSE acc[k - 1] + NxCostFunc(f, G, p[k], p[k + 1])
    IN acc[Len(p) - 1]

\* C4: for every path getpaths returns, costs[i] is the sum of nxcostfunc over the
\* consecutive node pairs of the path; the costs do not depend on calculate, and
\* another nxcostfunc leaves the weights unchanged.
CostsAreSumOfCostFunc ==
    (result.op = "getpaths" /\ result.out.status = "ok") =>
        LET ps == result.out.paths
        IN /\ \A i \in 1..Len(ps.nodes) :
                 ps.costs[i] = CostSum(result.nxcostfunc, ps.nodes[i])
           /\ \A c \in Calculates :
                 GetPathsResult(G, dedges, result.source, result.target, c,
                                result.nxcostfunc).paths.costs = ps.costs
           /\ \A f \in CostFuncs :
                 GetPathsResult(G, dedges, result.source, result.target,
                                result.calculate, f).paths.weights = ps.weights

\* C4 witness: a path of several edges whose cost under one cost function differs
\* from its cost under the other, and from its weight
CostsWitness ==
    /\ result.op = "getpaths"
    /\ result.out.status = "ok"
    /\ \E i \in 1..Len(result.out.paths.nodes) :
          /\ Len(result.out.paths.nodes[i]) > 2
          /\ CostSum("dijkstra", result.out.paths.nodes[i])
                # CostSum("hops", result.out.paths.nodes[i])
          /\ result.out.paths.costs[i] # result.out.paths.weights[i]
          /\ result.out.paths.costs[i] = CostSum(result.nxcostfunc, result.out.paths.nodes[i])

\* the batch getpaths returns for the arguments of the sortedpaths call r
BatchOf(r) ==
    GetPathsResult(G, dedges, r.source, r.target, r.calculate, r.nxcostfunc).paths

\* C5: sortedpaths returns the values of the ranking attribute in non-decreasing
\* order for sense = +1 and in non-increasing order for sense = -1, for a batch of
\* any size.
RankingIsOrdered ==
    (result.op = "sortedpaths" /\ result.out.status = "ok") =>
        LET v == result.out.paths[result.cattribute]
        IN \A i \in 1..(Len(v) - 1) :
              IF result.sense = 1 THEN v[i] <= v[i + 1] ELSE v[i] >= v[i + 1]

\* C6: sortedpaths reorders nodes, edges, weights and costs by one and the same
\* permutation of the getpaths batch: no path is lost or duplicated and the four
\* entries at an index belong to the same path.
RankingIsOnePermutation ==
    (result.op = "sortedpaths" /\ result.out.status = "ok") =>
        LET in == BatchOf(result)
            out == result.out.paths
            n == Len(in.nodes)
        IN /\ DOMAIN out = {"nodes", "edges", "weights", "costs"}
           /\ \A k \in DOMAIN out : Len(out[k]) = n
           /\ \E pi \in Permutations(1..n) :
                 \A i \in 1..n :
                    /\ out.nodes[i] = in.nodes[pi[i]]
                    /\ out.edges[i] = in.edges[pi[i]]
                    /\ out.weights[i] = in.weights[pi[i]]
                    /\ out.costs[i] = in.costs[pi[i]]

\* C6 witness: a ranked batch of three or more paths whose order differs from the
\* order of discovery
RankingWitness ==
    /\ result.op = "sortedpaths"
    /\ result.out.status = "ok"
    /\ Len(result.out.paths.nodes) >= 3
    /\ result.out.paths.nodes # BatchOf(result).nodes
    /\ result.out.paths.weights # BatchOf(result).weights
    /\ result.out.paths.costs # BatchOf(result).costs

\* C7: the ranking places every path whose ranking value is None after every path
\* with a defined value, for both senses.
UndefinedRankLast ==
    result.op = "ranked" =>
        LET v == result.out.paths[result.cattribute]
        IN \A i, j \in 1..Len(v) : (i < j /\ v[i] = None) => v[j] = None

\* the same for sense = +1 only
UndefinedRankLastAscending ==
    (result.op = "ranked" /\ result.sense = 1 /\ Len(result.batch.nodes) <= 2) =>
        UndefinedRankLast

PositionIn(s, x) == CHOOSE i \in 1..Len(s) : s[i] = x

\* C8: paths with equal ranking values keep, in the sortedpaths output, the
\* relative order in which getpaths discovered them, for both senses.
RankingIsStable ==
    (result.op = "sortedpaths" /\ result.out.status = "ok") =>
        LET in == BatchOf(result)
            out == result.out.paths
            v == out[result.cattribute]
        IN \A i, j \in 1..Len(v) :
              (i < j /\ v[i] = v[j]) =>
                  PositionIn(in.nodes, out.nodes[i]) < PositionIn(in.nodes, out.nodes[j])

\* the ranked batch of the call r with the other sense
Opposite(r) ==
    SortedPathsResult(G, dedges, r.source, r.target, 0 - r.sense, r.cattribute,
                      r.calculate, r.nxcostfunc).paths

\* C9: the order sortedpaths returns with sense = -1 is the exact reverse of the
\* order it returns with sense = +1 (every value of a batch of getpaths is
\* defined, so this is the whole batch).
OppositeSenseReverses ==
    (result.op = "sortedpaths" /\ result.out.status = "ok") =>
        Opposite(result).nodes = Reverse(result.out.paths.nodes)

\* the same for batches of at most two paths with different values
OppositeSenseReversesTwoDistinct ==
    (/\ result.op = "sortedpaths"
     /\ result.out.status = "ok"
     /\ Len(result.out.paths.nodes) <= 2
     /\ NoDuplicates(result.out.paths[result.cattribute])) => OppositeSenseReverses

\* the bounds of the variable for a capacity interval: an infinite bound is no bound
BoundOf(capacity) == IF capacity = Infinity THEN NoBound ELSE <<capacity>>

\* C10: a built PuLPModel has exactly one variable per node of the topology, named
\* by the node's cidx, whose lower and upper bounds are the node's mincapacity and
\* maxcapacity (an infinite bound being no bound).
VariablesAreTheNodes ==
    result.op = "PuLPModel" =>
        LET vs == result.out.nvariables
        IN /\ Len(vs) = Len(G.nodes)
           /\ \A n \in Range(dnodes) :
                 /\ Cardinality({i \in 1..Len(vs) : vs[i].name = n.cidx}) = 1
                 /\ \A i \in 1..Len(vs) :
                       vs[i].name = n.cidx =>
                          /\ vs[i].lowBound = BoundOf(n.mincapacity)
                          /\ vs[i].upBound = BoundOf(n.maxcapacity)

\* what the code builds instead: one unbounded variable per edge, named by the
\* edge's cidx
VariablesAreTheEdges ==
    result.op = "PuLPModel" =>
        LET vs == result.out.nvariables
            es == GEdges(G, directed)
        IN /\ Len(vs) = Len(es)
           /\ \A k \in 1..Len(es) :
                 \E i \in 1..Len(vs) : \E e \in Range(dedges) :
                    EdgeKey(e) = es[k] /\ vs[i] = LpVariable(e.cidx)

\* the edges of the topology: ordered pairs of a DiGraph, unordered pairs of a Graph
TopologyEdges ==
    {IF directed THEN <<u, v>> ELSE {u, v} :
        <<u, v>> \in {p \in Names \X Names : p[2] \in Range(G.adj[p[1]])}}

\* the topology edge an attribute record stands for
TopologyEdgeOf(e) == IF directed THEN <<e.unode, e.vnode>> ELSE {e.unode, e.vnode}

\* C11: right after a PuLPModel is built its objective has exactly one term per
\* edge of the topology, the term of an edge being the edge's weight times the
\* variable named by the edge's cidx, and it has no constraints.
ObjectiveIsTheEdgeSum ==
    result.op = "PuLPModel" =>
        LET obj == result.out.objective
        IN /\ Len(obj) = Cardinality(TopologyEdges)
           /\ \A i \in 1..Len(obj) :
                 \E e \in Range(dedges) :
                    /\ obj[i].var.name = e.cidx
                    /\ obj[i].coeff = e.time
                    /\ TopologyEdgeOf(e) \in TopologyEdges
           /\ \A i, j \in 1..Len(obj) :
                 \A e, d \in Range(dedges) :
                    (i # j /\ obj[i].var.name = e.cidx /\ obj[j].var.name = d.cidx)
                        => TopologyEdgeOf(e) # TopologyEdgeOf(d)
           /\ result.out.constraints = <<>>

\* C11 witness: a model built from a graph with two edges of different weights
ObjectiveWitness ==
    /\ result.op = "PuLPModel"
    /\ Len(result.out.objective) >= 2
    /\ \E i, j \in 1..Len(result.out.objective) :
          result.out.objective[i].coeff # result.out.objective[j].coeff

\* C12: a model built with sense = +1 is handed to the solver as a minimisation
\* problem and a model built with sense = -1 as a maximisation problem.
SenseIsHandedOver ==
    result.op = "PuLPModel" =>
        result.out.lpsense = (IF result.sense = 1 THEN "LpMinimize" ELSE "LpMaximize")

\* what the code hands over instead: the opposite direction
SenseIsHandedOverInverted ==
    result.op = "PuLPModel" =>
        result.out.lpsense = (IF result.sense = 1 THEN "LpMaximize" ELSE "LpMinimize")

\* the nodes with an edge into n, and the nodes n has an edge to
Predecessors(n) == {u \in Names : n \in Range(G.adj[u])}
Successors(n) == Range(G.adj[n])

\* the three mappings of the create_constraints call r are the ones of C13
GroupsAreRight(r) ==
    LET o == r.out
        dn == r.demandnodes
        S == UNION {Predecessors(dn[i].name) : i \in 1..Len(dn)}
    IN /\ Len(o.demand) = Len(dn)
       /\ \A i \in 1..Len(dn) :
             /\ o.demand[i].object = dn[i]
             /\ Range(o.demand[i].suppliers) = Predecessors(dn[i].name)
             /\ NoDuplicates(o.demand[i].suppliers)
       /\ Len(o.supply) = Cardinality(S)
       /\ {o.supply[k].object.name : k \in 1..Len(o.supply)} = S
       /\ \A k \in 1..Len(o.supply) :
             /\ o.supply[k].object \in Range(dnodes)
             /\ Range(o.supply[k].demanders) = Successors(o.supply[k].object.name)
             /\ NoDuplicates(o.supply[k].demanders)
       /\ Len(o.iterables) = Len(o.supply)
       /\ \A k \in 1..Len(o.supply) :
             /\ o.iterables[k].object = o.supply[k].object
             /\ NoDuplicates(o.iterables[k].variables)
             /\ Range(o.iterables[k].variables) =
                   {LpVariable(e.cidx) :
                       e \in {x \in Range(dedges) :
                                 /\ x.unode = o.supply[k].object.name
                                 /\ x.vnode \in Successors(x.unode)}}

\* C13: create_constraints(demandnodes) returns a demand record per demand node
\* whose suppliers are the node's predecessors, one supply record per distinct
\* supplier whose demanders are the supplier's successors, and per supplier the
\* variables of the edges from the supplier to its demanders.
CreateConstraintsGroups ==
    result.op = "create_constraints" =>
        (result.out.status = "ok" /\ GroupsAreRight(result))

\* the same on directed graphs
DirectedCreateConstraintsGroups ==
    (result.op = "create_constraints" /\ directed) => CreateConstraintsGroups

\* a directed call in which one supplier serves two of the demand nodes
SharedSupplierReached ==
    /\ result.op = "create_constraints"
    /\ result.out.status = "ok"
    /\ \E i, j \in 1..Len(result.out.demand) :
          /\ i # j
          /\ Range(result.out.demand[i].suppliers) \cap Range(result.out.demand[j].suppliers) # {}
    /\ \E k \in 1..Len(result.out.iterables) : Len(result.out.iterables[k].variables) >= 2

\* C14: getpaths and sortedpaths fail, returning no result, whenever the source or
\* the target is not the name of a registered node.
UnregisteredEndsFail ==
    (/\ result.op \in {"getpaths", "sortedpaths"}
     /\ \/ result.source \notin DnodeKeys(dnodes)
        \/ result.target \notin DnodeKeys(dnodes)) => result.out.status = "error"

\* the same for the source only
UnregisteredSourceFails ==
    (/\ result.op \in {"getpaths", "sortedpaths"}
     /\ result.source \notin DnodeKeys(dnodes)) => result.out = Raised("AssertionError")

\* the attributes a time edge has a value for
TimeEdgeKeys == {"time", "weight"}

\* C15: if an edge of an enumerated path has no value for the chosen attribute,
\* getpaths fails and returns no result (no default takes the place of the value).
MissingAttributeFails ==
    (/\ result.op = "getpaths"
     /\ result.attribute \notin TimeEdgeKeys
     /\ result.source \in DnodeKeys(dnodes)
     /\ SimplePathSet(G, result.source, result.target) # {}) => result.out.status = "error"

\* C15 witness: a call for the attribute "cost" between two nodes joined by a path
\* of two edges, with a valid rtype, that raised KeyError
MissingAttributeWitness ==
    /\ result.op = "getpaths"
    /\ result.attribute = "cost"
    /\ result.rtype = "complete"
    /\ \E p \in SimplePathSet(G, result.source, result.target) : Len(p) = 3
    /\ result.out = Raised("KeyError")

\* the node sequence of the i-th path of a returned batch
NodePathOf(ps, i) ==
    IF "nodes" \in DOMAIN ps THEN ps.nodes[i]
    ELSE [k \in 1..(Len(ps.edges[i]) + 1) |->
            IF k = 1 THEN ps.edges[i][1][1] ELSE ps.edges[i][k - 1][2]]

\* 10^-digits, in thousandths
StepOf(digits) == IF digits = 0 THEN Unit ELSE Unit \div 10

Distance(a, b) == IF a < b THEN b - a ELSE a - b

\* every weight and cost of the call r has `digits` fractional digits and is the
\* rounding of the finished sum or product of its path
RoundedTo(r, digits) ==
    LET ps == r.out.paths
        step == StepOf(digits)
    IN \A i \in 1..Len(ps.weights) :
          LET p == NodePathOf(ps, i)
              weight == IF r.calculate = "additive" THEN WeightSum(p) ELSE WeightProduct(p)
              cost == CostSum(r.nxcostfunc, p)
          IN /\ ps.weights[i] % step = 0
             /\ ps.costs[i] % step = 0
             /\ 2 * Distance(ps.weights[i], weight) <= step
             /\ 2 * Distance(ps.costs[i], cost) <= step

\* C16: whenever a roundvalue is supplied to getpaths or sortedpaths (0 included),
\* every weight and cost of the output is rounded to that number of fractional
\* digits, the rounding being applied to the finished sum or product.
RoundingIsApplied ==
    (/\ result.op \in {"getpaths", "sortedpaths"}
     /\ result.out.status = "ok"
     /\ result.calculate \in Calculates
     /\ result.roundvalue # None) => RoundedTo(result, result.roundvalue)

\* the same for a roundvalue other than 0
NonZeroRoundingIsApplied ==
    (/\ result.op \in {"getpaths", "sortedpaths"}
     /\ result.out.status = "ok"
     /\ result.calculate \in Calculates
     /\ result.roundvalue \notin {None, 0}) => RoundedTo(result, result.roundvalue)

\* a call with roundvalue = 1 that returned a weight which is not the finished
\* product of its path
RoundedWeightReached ==
    /\ result.op = "getpaths"
    /\ result.out.status = "ok"
    /\ result.roundvalue = 1
    /\ result.calculate = "multiplicative"
    /\ \E i \in 1..Len(result.out.paths.weights) :
          result.out.paths.weights[i] # WeightProduct(NodePathOf(result.out.paths, i))

\* the batch of the getpaths call r had it been made with rtype = "complete"
CompleteBatchOf(r) ==
    GetPathsBody(G, dedges, r.source, r.target, "complete", r.attribute, r.calculate,
                 r.nxcostfunc, r.roundvalue).paths

\* C17: getpaths with rtype "nodes" returns the batch without the edges, with
\* "edges" the batch without the nodes, with "complete" both; weights, costs and
\* the source and target are in all three; any other rtype raises ValueError.
RtypeSelectsTheView ==
    (/\ result.op = "getpaths"
     /\ result.source \in DnodeKeys(dnodes)
     /\ result.attribute \in TimeEdgeKeys) =>
        IF result.rtype \in {"nodes", "edges", "complete"}
        THEN /\ result.out.status = "ok"
             /\ DOMAIN result.out.paths =
                   (CASE result.rtype = "nodes" -> {"nodes", "weights", "costs"}
                      [] result.rtype = "edges" -> {"edges", "weights", "costs"}
                      [] OTHER -> {"nodes", "edges", "weights", "costs"})
             /\ \A k \in DOMAIN result.out.paths :
                   result.out.paths[k] = CompleteBatchOf(result)[k]
             /\ result.out.source = result.source
             /\ result.out.target = result.target
        ELSE result.out = Raised("ValueError")

\* C17 witness: a call with rtype = "edges" that returned a path of two edges
\* without the nodes
RtypeWitness ==
    /\ result.op = "getpaths"
    /\ result.rtype = "edges"
    /\ result.out.status = "ok"
    /\ \E i \in 1..Len(result.out.paths.edges) : Len(result.out.paths.edges[i]) = 2
    /\ "nodes" \notin DOMAIN result.out.paths

\* C18: every entry point that takes a sense rejects a value outside {+1, -1}:
\* sortedpaths fails with ValueError and returns no ranked batch, and the
\* construction of an optimization model with such a sense fails.
OutsideSenseRaisesValueError ==
    (/\ result.op \in {"sortedpaths", "PuLPModel"}
     /\ result.sense \notin {1, -1}) =>
        /\ result.out.status = "error"
        /\ result.op = "sortedpaths" => result.out.error = "ValueError"

\* C18 as the code has it: a sense outside {+1, -1} makes sortedpaths fail, with
\* AssertionError when its call of getpaths returned, and makes the construction
\* of an optimization model fail its validation.
OutsideSenseFails ==
    (/\ result.op \in {"sortedpaths", "PuLPModel"}
     /\ result.sense \notin {1, -1}) =>
        /\ result.out.status = "error"
        /\ result.op = "PuLPModel" => result.out = Raised("ValidationError")
        /\ (/\ result.op = "sortedpaths"
            /\ result.source \in DnodeKeys(dnodes)
            /\ result.attribute \in TimeEdgeKeys) => result.out = Raised("AssertionError")

\* C18 witness: sortedpaths with sense = 0 between two nodes joined by a path, which
\* raised AssertionError
OutsideSenseWitness ==
    /\ result.op = "sortedpaths"
    /\ result.sense = 0
    /\ result.attribute = "weight"
    /\ SimplePathSet(G, result.source, result.target) # {}
    /\ result.out = Raised("AssertionError")

\* C19: the combination mode of getpaths is an enum of exactly two values: a
\* calculate argument that is neither "additive" nor "multiplicative" makes
\* getpaths fail instead of returning weights.
InvalidCalculateFails ==
    (/\ result.op = "getpaths"
     /\ result.calculate \notin {"additive", "multiplicative"}) =>
        result.out.status = "error"

\* what the code does with such a calculate argument: the call returns what the
\* same call with calculate = "multiplicative" returns
InvalidCalculateIsMultiplicative ==
    (/\ result.op = "getpaths"
     /\ result.calculate \notin {"additive", "multiplicative"}) =>
        result.out = GetPathsCall(dnodes, G, dedges, result.source, result.target,
                                  result.rtype, result.attribute, "multiplicative",
                                  result.nxcostfunc, result.roundvalue)

\* a call with an unknown calculate argument that returned the weight of a path
\* of two edges
InvalidCalculateReturnedWeights ==
    /\ result.op = "getpaths"
    /\ result.calculate = "average"
    /\ result.out.status = "ok"
    /\ "weights" \in DOMAIN result.out.paths
    /\ \E i \in DOMAIN result.out.paths.weights :
          Len(NodePathOf(result.out.paths, i)) = 3

\* the distinct nodes a call of adjacent_nodes returned
ReturnedNodes(r) == Range(r.out.nodes)

\* C20: for a directed graph and a registered node n, adjacent_nodes(n) returns
\* exactly the successors of n, adjacent_nodes(n, reverse = True) exactly the
\* predecessors of n, and adjacent_nodes(n, undirected = True) exactly the union
\* of both; a call with reverse and undirected both true fails and returns nothing.
AdjacentNodesOfDirected ==
    (/\ result.op = "adjacent_nodes"
     /\ directed
     /\ result.node \in DnodeKeys(dnodes)) =>
        IF result.reverse /\ result.undirected
        THEN result.out.status = "error"
        ELSE /\ result.out.status = "ok"
             /\ Len(result.out.nodes) = Cardinality(ReturnedNodes(result))
             /\ ReturnedNodes(result) =
                   IF result.reverse THEN Predecessors(result.node)
                   ELSE IF result.undirected
                        THEN Predecessors(result.node) \cup Successors(result.node)
                        ELSE Successors(result.node)

\* C20 witness: a reverse call on a directed graph for a node that has a
\* predecessor which is not a successor, and a successor
AdjacentNodesWitness ==
    /\ result.op = "adjacent_nodes"
    /\ directed
    /\ result.reverse
    /\ ~result.undirected
    /\ result.out.status = "ok"
    /\ Predecessors(result.node) \ Successors(result.node) # {}
    /\ Successors(result.node) # {}

\* the records of the kind a lookup chose, as the graph holds them
RecordsOfKind(component) == IF Lower(component) = "node" THEN dnodes ELSE dedges

\* the positions, in map order, of the records whose cidx is the one asked for
MatchesOf(r) ==
    {i \in 1..Len(RecordsOfKind(r.component)) : RecordsOfKind(r.component)[i].cidx = r.cidx}

\* the key of an inspect call is a key of the map of the kind asked for
KeyPresent(r) ==
    IF Lower(r.component) = "node"
    THEN r.key.kind = "name" /\ r.key.v[1] \in DnodeKeys(dnodes)
    ELSE r.key.kind = "pair" /\ r.key.v \in DedgeKeys(dedges)

\* getbycidx on a valid kind returns the first matching record and fails without one
GetByCidxFirstMatch ==
    (/\ result.op = "getbycidx"
     /\ Lower(result.component) \in {"node", "edge"}) =>
        IF MatchesOf(result) = {} THEN result.out.status = "error"
        ELSE /\ result.out.status = "ok"
             /\ \E i \in MatchesOf(result) :
                   /\ \A j \in MatchesOf(result) : i <= j
                   /\ result.out.record = RecordsOfKind(result.component)[i]

\* C21: getbycidx(cidx, component) returns the first record, in attribute-map
\* order, whose cidx equals the argument, and fails when no record matches;
\* inspect(key, component) fails when the key is absent and when component is
\* neither "node" nor "edge".
LookupFailsOutsideNodeAndEdge ==
    /\ GetByCidxFirstMatch
    /\ result.op = "inspect" =>
          /\ result.component \notin {"node", "edge"} => result.out.status = "error"
          /\ (result.component \in {"node", "edge"} /\ ~KeyPresent(result)) =>
                result.out.status = "error"

\* C21 with the component compared as the code compares it, lower-cased: inspect
\* fails when the key is absent and when the lower-cased component is neither
\* "node" nor "edge", and returns the record under the key otherwise.
LookupContract ==
    /\ GetByCidxFirstMatch
    /\ result.op \in {"inspect", "getbycidx"} =>
          (Lower(result.component) \notin {"node", "edge"} =>
              result.out.status = "error")
    /\ (result.op = "inspect" /\ Lower(result.component) \in {"node", "edge"}) =>
          IF KeyPresent(result)
          THEN /\ result.out.status = "ok"
               /\ \E i \in 1..Len(RecordsOfKind(result.component)) :
                     result.out.record = RecordsOfKind(result.component)[i]
          ELSE result.out.status = "error"

\* C21 witness: getbycidx found two nodes with the cidx asked for and returned one
LookupWitness ==
    /\ result.op = "getbycidx"
    /\ result.component = "node"
    /\ Cardinality(MatchesOf(result)) = 2
    /\ result.out.status = "ok"

\* inspect with component = "Node" returned a record
CapitalisedComponentAccepted ==
    /\ result.op = "inspect"
    /\ result.component = "Node"
    /\ result.out.status = "ok"

\* C22: no node with mincapacity > maxcapacity can be constructed, so in every
\* graph on which a path query runs every node record satisfies
\* mincapacity <= maxcapacity.
CapacityIntervalHolds ==
    /\ (\E i \in 1..Len(dnodesArg) : dnodesArg[i].mincapacity > dnodesArg[i].maxcapacity)
          => phase \in {"components", "rejected"}
    /\ result.op \in {"getpaths", "sortedpaths"} =>
          /\ phase = "built"
          /\ \A i \in 1..Len(dnodes) : dnodes[i].mincapacity <= dnodes[i].maxcapacity

\* C22 witness: the construction of a node with mincapacity = 10 and maxcapacity = 5
\* was attempted and failed
CapacityWitness ==
    /\ phase = "rejected"
    /\ \E i \in 1..Len(dnodesArg) :
          dnodesArg[i].mincapacity = 10 /\ dnodesArg[i].maxcapacity = 5

\* a path query ran on a graph with a node of capacity interval [10, inf)
CapacityQueryReached ==
    /\ result.op = "getpaths"
    /\ result.out.status = "ok"
    /\ \E i \in 1..Len(dnodes) :
          dnodes[i].mincapacity = 10 /\ dnodes[i].maxcapacity = Infinity

\* the weight the spec derives for an edge of each variant: time, cost, time x cost
DerivedWeight(e) ==
    IF e.variant = "TimeEdge" THEN e.time
    ELSE IF e.variant = "CostEdge" THEN e.cost
    ELSE (e.time * e.cost) \div Unit

\* the attribute record of the edge was produced, with the derived weight in it
SuppliesDerivedWeight(r) ==
    /\ r.out.status = "ok"
    /\ "weight" \in DOMAIN r.out.attributes
    /\ r.out.attributes.weight = DerivedWeight(r.edge)

\* C23: for each of the three edge variants the attribute record that the edge
\* supplies to the graph can be produced and contains a weight entry equal to the
\* variant's derived weight: time, cost, or time x cost.
EveryVariantSuppliesItsWeight ==
    result.op \in {"attributes", "add_edge"} => SuppliesDerivedWeight(result)

\* the time-based and the combined edge do supply their record
TimeAndCombinedSupplyTheirWeight ==
    (/\ result.op \in {"attributes", "add_edge"}
     /\ result.edge.variant # "CostEdge") =>
        /\ SuppliesDerivedWeight(result)
        /\ result.op = "add_edge" =>
              G.data[<<result.edge.unode, result.edge.vnode>>] = DerivedWeight(result.edge)

\* a cost-based edge has its weight but no attribute record: reading it fails
CostEdgeHasNoRecord ==
    (result.op \in {"attributes", "add_edge", "weight"} /\ result.edge.variant = "CostEdge") =>
        IF result.op = "weight" THEN result.out.value = result.edge.cost
        ELSE result.out = Raised("AttributeError") /\ G.data = NoData

\* a combined edge of time 1.5 and cost 0.5 supplied the weight 0.75
CombinedWeightReached ==
    /\ result.op = "attributes"
    /\ result.edge.variant = "TimeCostEdge"
    /\ result.edge.time = 1500
    /\ result.edge.cost = 500
    /\ result.out.status = "ok"
    /\ result.out.attributes.weight = 750

\* the attribute records of the undirected edge between u and v
RecordsBetween(u, v) ==
    {rec \in Range(dedges) : RecordOf(FALSE, rec, <<u, v>>)}

\* the sum and the product of the edge weights along an undirected path
UndirectedWeight(calculate, p) ==
    LET time(k) == (CHOOSE rec \in RecordsBetween(p[k], p[k + 1]) : TRUE).time
        acc[k \in 0..(Len(p) - 1)] ==
            IF k = 0 THEN (IF calculate = "additive" THEN 0 ELSE Unit)
            ELSE IF calculate = "additive" THEN acc[k - 1] + time(k)
            ELSE (acc[k - 1] * time(k)) \div Unit
    IN acc[Len(p) - 1]

\* every edge of the path has one attribute record
OneRecordPerEdge(p) ==
    \A k \in 1..(Len(p) - 1) : Cardinality(RecordsBetween(p[k], p[k + 1])) = 1

\* a simple path from the source to the target of the call r that takes an edge
\* against the orientation of every key the edge has in the attribute map
AgainstTheKeys(r) ==
    {p \in SimplePathSet(G, r.source, r.target) :
        \E k \in 1..(Len(p) - 1) : <<p[k], p[k + 1]>> \notin DedgeKeys(dedges)}

\* C24: on an undirected graph that construction accepted, getpaths(s, t) succeeds
\* for every pair of registered nodes and returns every simple undirected path
\* with its weight and cost, including the paths that traverse an edge in the
\* direction opposite to the (u, v) orientation of its key in the edge attribute map.
UndirectedGetPathsSucceeds ==
    (result.op = "getpaths" /\ ~directed) =>
        /\ result.out.status = "ok"
        /\ ReturnsTheSimplePaths(result)
        /\ Len(result.out.paths.weights) = Len(result.out.paths.nodes)
        /\ Len(result.out.paths.costs) = Len(result.out.paths.nodes)
        /\ \A i \in 1..Len(result.out.paths.nodes) :
              /\ OneRecordPerEdge(result.out.paths.nodes[i]) =>
                    result.out.paths.weights[i] =
                       UndirectedWeight(result.calculate, result.out.paths.nodes[i])
              /\ result.out.paths.costs[i] =
                    CostSum(result.nxcostfunc, result.out.paths.nodes[i])

\* what the code does on an undirected graph: the call fails with KeyError exactly
\* when some simple path takes an edge against its keys, and is right otherwise
UndirectedGetPathsFailsAgainstTheKeys ==
    (result.op = "getpaths" /\ ~directed) =>
        IF AgainstTheKeys(result) # {} THEN result.out = Raised("KeyError")
        ELSE /\ result.out.status = "ok"
             /\ ReturnsTheSimplePaths(result)
             /\ \A i \in 1..Len(result.out.paths.nodes) :
                   result.out.paths.weights[i] =
                      IF result.calculate = "additive"
                      THEN WeightSum(result.out.paths.nodes[i])
                      ELSE WeightProduct(result.out.paths.nodes[i])

\* getpaths on an undirected graph of the one edge keyed (A, B), from B to A
BackwardsOverOneEdge ==
    /\ result.op = "getpaths"
    /\ ~directed
    /\ DedgeKeys(dedges) = {<<"A", "B">>}
    /\ result.source = "B"
    /\ result.target = "A"
    /\ result.out = Raised("KeyError")

\* C25: when calculate is "additive" and nxcostfunc is the default Dijkstra
\* shortest-path length over the same attribute, the weight and the cost of every
\* returned path are equal, on every graph.
AdditiveWeightEqualsCost ==
    (/\ result.op = "getpaths"
     /\ result.out.status = "ok"
     /\ result.calculate = "additive"
     /\ result.nxcostfunc = "dijkstra") =>
        \A i \in 1..Len(result.out.paths.nodes) :
           result.out.paths.weights[i] = result.out.paths.costs[i]

\* what the code guarantees there: the cost of a path is at most its weight, and
\* the two are equal when no edge of the path is longer than a way round it
AdditiveCostAtMostWeight ==
    (/\ result.op = "getpaths"
     /\ result.out.status = "ok"
     /\ result.calculate = "additive"
     /\ result.nxcostfunc = "dijkstra") =>
        \A i \in 1..Len(result.out.paths.nodes) :
           LET p == result.out.paths.nodes[i]
           IN /\ result.out.paths.costs[i] <= result.out.paths.weights[i]
              /\ (\A k \in 1..(Len(p) - 1) :
                     \A q \in SimplePathSet(G, p[k], p[k + 1]) :
                        WeightSum(q) >= RecordAt(p, k).time)
                   => result.out.paths.costs[i] = result.out.paths.weights[i]

\* the path [A, C] over the edge of time 1.5, beside the edges A -> B and B -> C
\* of time 0.5 each: weight 1.5, cost 1.0
DetourReached ==
    /\ result.op = "getpaths"
    /\ result.calculate = "additive"
    /\ result.nxcostfunc = "dijkstra"
    /\ result.out.status = "ok"
    /\ \E i \in 1..Len(result.out.paths.nodes) :
          /\ result.out.paths.nodes[i] = <<"A", "C">>
          /\ result.out.paths.weights[i] = 1500
          /\ result.out.paths.costs[i] = 1000

\* C26: on the directed graph with the edges A -> B (2), B -> D (3), A -> C (1),
\* C -> D (10), getpaths(A, D) returns exactly the two paths [A, B, D] and
\* [A, C, D], their additive weights are 5 and 11, and sortedpaths by weights with
\* sense = +1 lists [A, B, D] first.
ScenarioHolds ==
    /\ (result.op = "getpaths" /\ result.source = "A" /\ result.target = "D") =>
          /\ result.out.status = "ok"
          /\ Len(result.out.paths.nodes) = 2
          /\ Range(result.out.paths.nodes) = {<<"A", "B", "D">>, <<"A", "C", "D">>}
          /\ result.calculate = "additive" =>
                \A i \in 1..2 :
                   result.out.paths.weights[i] =
                      IF result.out.paths.nodes[i] = <<"A", "B", "D">> THEN 5000 ELSE 11000
    /\ (/\ result.op = "sortedpaths"
        /\ result.source = "A"
        /\ result.target = "D"
        /\ result.sense = 1
        /\ result.cattribute = "weights") =>
          /\ result.out.status = "ok"
          /\ result.out.paths.nodes[1] = <<"A", "B", "D">>
          /\ result.calculate = "additive" => result.out.paths.weights = <<5000, 11000>>

\* C26 witness: the ranking by additive weights, sense = +1, of a batch that
\* getpaths gave with [A, C, D] first
ScenarioWitness ==
    /\ result.op = "sortedpaths"
    /\ result.source = "A"
    /\ result.target = "D"
    /\ result.sense = 1
    /\ result.cattribute = "weights"
    /\ result.calculate = "additive"
    /\ BatchOf(result).nodes[1] = <<"A", "C", "D">>
    /\ result.out.status = "ok"
    /\ result.out.paths.nodes = << <<"A", "B", "D">>, <<"A", "C", "D">> >>

\* C27: when source equals target and is a registered node, getpaths has a defined
\* result that represents the zero-length path: the batch contains the single-node
\* path [s] with an empty edge sequence, and a weight and a cost are defined for it.
ZeroLengthPathRepresented ==
    (result.op = "getpaths" /\ result.source = result.target) =>
        /\ result.out.status = "ok"
        /\ result.out.paths.nodes = << <<result.source>> >>
        /\ result.out.paths.edges = << <<>> >>
        /\ Len(result.out.paths.weights) = 1
        /\ Len(result.out.paths.costs) = 1

\* what the code returns there: never an error; the empty batch, or the single
\* path [s] with no edge, the weight 0 (additive) or 1 (multiplicative) and cost 0
SameEndsResult ==
    (result.op = "getpaths" /\ result.source = result.target) =>
        /\ result.out.status = "ok"
        /\ \/ result.out.paths =
                 [nodes |-> <<>>, edges |-> <<>>, weights |-> <<>>, costs |-> <<>>]
           \/ result.out.paths =
                 [nodes |-> << <<result.source>> >>,
                  edges |-> << <<>> >>,
                  weights |-> << IF result.calculate = "additive" THEN 0 ELSE Unit >>,
                  costs |-> << 0 >>]

\* getpaths from a node to itself returned the empty batch
SameEndsEmptyReached ==
    /\ result.op = "getpaths"
    /\ result.source = result.target
    /\ result.out.status = "ok"
    /\ result.out.paths.nodes = <<>>

\* getpaths from a node to itself returned the single-node path
SameEndsSingleReached ==
    /\ result.op = "getpaths"
    /\ result.source = result.target
    /\ result.out.status = "ok"
    /\ result.out.paths.nodes = << <<result.source>> >>
    /\ result.out.paths.weights = << Unit >>

PureQueries == {"inspect", "getbycidx", "alter", "adjacent_nodes", "getpaths", "sortedpaths"}

\* what the query of the call r returns on the graph g with the maps nodes and edges
SameQuery(r, g, dir, nodes, edges) ==
    CASE r.op = "inspect" -> Inspect(nodes, edges, r.key, r.component)
      [] r.op = "getbycidx" -> GetByCidx(nodes, edges, r.cidx, r.component)
      [] r.op = "alter" -> Alter(g, dir, r.reverse, r.undirected)
      [] r.op = "adjacent_nodes" -> AdjacentNodes(g, dir, r.node, r.reverse, r.undirected)
      [] r.op = "getpaths" ->
            GetPathsCall(nodes, g, edges, r.source, r.target, r.rtype, r.attribute,
                         r.calculate, r.nxcostfunc, r.roundvalue)
      [] r.op = "sortedpaths" ->
            SortedPathsCall(nodes, g, edges, r.source, r.target, r.sense, r.cattribute,
                            r.attribute, r.calculate, r.nxcostfunc, r.roundvalue)

\* a step of a built graph that is the call of a pure query or the return from one
QueryStep ==
    /\ phase = "built"
    /\ result.op \in PureQueries \cup {"none"}
    /\ result'.op \in PureQueries \cup {"none"}

\* C28: inspect, getbycidx, alter, adjacent_nodes, getpaths and sortedpaths are
\* pure queries: each leaves the topology G and the attribute maps dnodes and
\* dedges unchanged, so that the same query with the same arguments, made again
\* on the graph as the call left it, returns the same result.
QueriesArePure ==
    [][QueryStep =>
          /\ G' = G
          /\ dnodes' = dnodes
          /\ dedges' = dedges
          /\ result'.op \in PureQueries =>
                result'.out = SameQuery(result', G', directed', dnodes', dedges')]_vars

\* C28 witness: alter returned a graph that differs from G, and G still has
\* exactly the edges of the attribute map
PureQueryWitness ==
    /\ phase = "built"
    /\ result.op = "alter"
    /\ result.reverse
    /\ result.out.status = "ok"
    /\ result.out.graph # G
    /\ SetDedgesOK(G, directed, dedges)
    /\ dedges # <<>>

\* C29: assigning any attribute of an edge other than _color after construction
\* fails with ValueError and leaves every attribute of the edge, including its
\* weight, unchanged; assigning _color succeeds and changes only the value
\* returned by color.
OnlyTheColourIsAssignable ==
    result.op = "setattr" =>
        LET before == result.edge
            after == dedgesArg[result.index]
        IN IF result.name = "_color"
           THEN /\ result.out.status = "ok"
                /\ Color(after) = result.value
                /\ DOMAIN after = DOMAIN before
                /\ \A k \in (DOMAIN before) \ {"_color"} : after[k] = before[k]
                /\ VariantWeight(after) = VariantWeight(before)
           ELSE /\ result.out = Raised("ValueError")
                /\ after = before
                /\ VariantWeight(after) = VariantWeight(before)

\* C29 witness: the assignment edge._color = "#2F56A5" changed the colour of an edge
ColourWitness ==
    /\ result.op = "setattr"
    /\ result.name = "_color"
    /\ result.out.status = "ok"
    /\ Color(result.edge) = DefaultColor
    /\ Color(dedgesArg[result.index]) = "#2F56A5"

\* the names of the node map and the ends of the keys of the edge map
ArgumentNodes ==
    DnodeKeys(dnodesArg) \cup {e[1] : e \in DedgeKeys(dedgesArg)}
                         \cup {e[2] : e \in DedgeKeys(dedgesArg)}

\* C30: construction with initgraph = True adds all nodes and edges to the
\* caller-supplied topology G before the topology/attribute checks run; when a
\* check then fails, no graph object is returned but the nodes and edges already
\* added remain in the caller's G.
FailedConstructionIsNotRolledBack ==
    [][(phase = "new" /\ initgraph) =>
          /\ Range(G'.nodes) = Range(G.nodes) \cup ArgumentNodes
          /\ \A e \in DedgeKeys(dedgesArg) : EdgeIn(G', directed, e)
          /\ \A i \in 1..Len(dedgesArg) :
                \E j \in i..Len(dedgesArg) :
                   /\ EdgeKey(dedgesArg[j]) \in {EdgeKey(dedgesArg[i]),
                                                 IF directed THEN EdgeKey(dedgesArg[i])
                                                 ELSE <<dedgesArg[i].vnode, dedgesArg[i].unode>>}
                   /\ G'.data[EdgeKey(dedgesArg[i])] = dedgesArg[j].time
          /\ phase' = IF SetDnodesOK(G', dnodesArg) /\ SetDedgesOK(G', directed, dedgesArg)
                      THEN "built" ELSE "failed"
          /\ phase' = "failed" => dedges' = <<>>]_vars

\* C30 witness: a construction with initgraph = True failed, and the caller's G
\* holds the nodes and the edges of the arguments
NotRolledBackWitness ==
    /\ phase = "failed"
    /\ initgraph
    /\ dedgesArg # <<>>
    /\ \A e \in DedgeKeys(dedgesArg) : EdgeIn(G, directed, e)
    /\ DnodeKeys(dnodesArg) \subseteq Range(G.nodes)

====
